---------------------------- MODULE Spec2Model ----------------------------
(***************************************************************************)
(* Electric Gavinoe: the client's smart geocoder (fallback chain over      *)
(* Nominatim, Photon, US Census, ArcGIS, OpenCage) and the server's tip    *)
(* store (target keys, draft/publish visibility, id/index addressing).     *)
(*                                                                         *)
(* Text that the code inspects character by character (tip keys, site      *)
(* ids) is a sequence of one-character strings.  A search query is a       *)
(* sequence of word tokens, "," being a token of its own.  Values the code *)
(* only compares or tests for truthiness (user ids, tip text, photo urls)  *)
(* are strings, with "" the empty string, Null for null and Undefined for  *)
(* a property that is not there.                                           *)
(***************************************************************************)
EXTENDS Integers, Sequences, FiniteSets, Bags, TLC

VARIABLES
    \* ---- client: smartGeocoder.geocode, one call ----
    gpc,            \* the await the call is suspended at ("idle", "r1".."r8", "done")
    query,          \* the query as typed (token sequence)
    us,             \* local `us`
    q,              \* local `q` (normalized query)
    uniq,           \* geocodeWithCensusParts: the deduplicated combos
    ci,             \* geocodeWithCensusParts: position of the for loop in uniq
    inflight,       \* provider requests issued and not yet settled
    calls,          \* every provider request issued by this call, in order
    resps,          \* what each settled request delivered (<<>>: empty or failed)
    result,         \* value the geocode promise resolved with (read when gpc = "done")
    threw,          \* TRUE iff the geocode promise rejected
    lastKind,       \* how the request settled last ended ("none" before the first)
    ocSeen,         \* what line 308 read from OPENCAGE_ENABLED ("unread" before)
    photon,         \* TRUE iff L.Control.Geocoder.photon exists (const photon != null)
    opencageEnabled,\* window.APP_CONFIG.OPENCAGE_ENABLED
    serverHasKey,   \* Boolean(process.env.OPENCAGE_KEY) on the server
    configPc,       \* fetch('/api/config'): "pending" or "settled"
    \* ---- server: tips.json / markers.json and the last response ----
    tips,           \* tips.json: target key -> sequence of tips
    markers,        \* markers.json: sequence of markers
    nextId,         \* number of ids crypto.randomUUID() has handed out
    resp,           \* the response being sent, with what the request asked; NoResponse when idle
    tipsFile,       \* tips.json: "sound", "damaged" (unreadable or no valid JSON), or
                    \* "reset" (readJSONSafe wrote the default over it in the last step)
    markersFile,    \* markers.json: likewise
    \* ---- tipKeyFrom applied to one input ----
    kin,            \* the input object
    kpc,            \* "call" before tipKeyFrom(kin) ran, "ret" after
    kout,           \* the value returned (read when kpc = "ret")
    \* ---- splitUSAddress applied to one input ----
    ain,            \* the string passed in (token sequence, "," is a token)
    apc,            \* "call" before splitUSAddress(ain) ran, "ret" after
    aout,           \* the {street, city, state, zip} returned (read when apc = "ret")
    \* ---- server: the caching proxies (OpenCage, Wikipedia nearby) ----
    now,            \* Date.now(), in ticks
    ocCache,        \* the Map ocCache: its entries [k, t] in insertion order
    wikiCache,      \* the Map wikiCache: its entries [k, t] in insertion order
    upstream,       \* the upstream fetches the proxy handlers are awaiting
    pres,           \* what the last step of a proxy handler did
    \* ---- client: loadUSGSGages and pLimitAll ----
    gen,            \* the loads started so far: usgsAbortController belongs to load `gen`
    loads,          \* the calls of loadUSGSGages (or of pLimitAll alone), in order
    layer,          \* markerLayer: the markers [site, g] added by load g
    ivCache,        \* the fresh rows of ivCache: site id -> kind of its last reading
    \* ---- client: the tips panel of one browser (user A) ----
    listing,        \* ids of the <li> items renderInlineTips rendered last, by data-tip-index
    clicked,        \* the last click: the tip it was made on and the tip the server acted on
    \* ---- client: smartGeocoder.suggest ----
    spc,            \* "idle", "wait" (at `await photon.suggest`), "done"
    scalls,         \* the requests suggest calls have issued, in order
    sresp,          \* how the awaited request ended and the value it delivered
    sresult,        \* the value the last suggest call resolved with (read when spc = "done")
    sthrew          \* TRUE iff a suggest call rejected

geoVars  == <<gpc, query, us, q, uniq, ci, inflight, calls, resps, result, threw,
              lastKind, ocSeen, photon, opencageEnabled, serverHasKey, configPc>>
tipVars  == <<tips, markers, nextId, resp, tipsFile, markersFile>>
addrVars == <<ain, apc, aout>>
cacheVars == <<now, ocCache, wikiCache, upstream, pres>>
usgsVars == <<gen, loads, layer, ivCache>>
auxVars  == <<cacheVars, usgsVars>>
keyVars  == <<kin, kpc, kout, addrVars, auxVars>>
sugVars  == <<spc, scalls, sresp, sresult, sthrew>>
cliVars  == <<listing, clicked, sugVars>>
vars     == <<geoVars, tipVars, keyVars, cliVars>>

-----------------------------------------------------------------------------
(* JavaScript values *)

Null      == "<null>"
Undefined == "<undefined>"

\* truthiness that takes the empty string for a value
TruthyEmptyString(v) == v \notin {Null, Undefined}

\* ToBoolean on the string-or-null values of the model
Truthy(v) == v \notin {Null, Undefined, ""}

\* a || b
OrElse(a, b) == IF Truthy(a) THEN a ELSE b

\* s.includes(c) on a character sequence
Includes(s, c) == \E i \in 1..Len(s) : s[i] = c

\* String(n) for a small non-negative integer
Digit(d) == CASE d = 0 -> "0" [] d = 1 -> "1" [] d = 2 -> "2" [] d = 3 -> "3"
              [] d = 4 -> "4" [] d = 5 -> "5" [] d = 6 -> "6" [] d = 7 -> "7"
              [] d = 8 -> "8" [] d = 9 -> "9"
RECURSIVE NumToStr(_)
NumToStr(n) == IF n < 10 THEN <<Digit(n)>> ELSE NumToStr(n \div 10) \o <<Digit(n % 10)>>

\* an optional property: <<>> when it is not there (or null), <<v>> when it is v
None == <<>>
Some(v) == <<v>>
IsSome(o) == o # <<>>
Val(o) == o[1]

\* sequence helpers
Range(s) == {s[i] : i \in 1..Len(s)}
Last(s) == s[Len(s)]
Front(s) == SubSeq(s, 1, Len(s) - 1)

-----------------------------------------------------------------------------
(* Client: query classification and normalization (unnamed/part_002)        *)

\* STATE_ABBR_RE / STATE_RE: the alternation of two-letter codes
STATE_ABBR ==
    {"AL","AK","AZ","AR","CA","CO","CT","DC","DE","FL","GA","HI","IA","ID","IL",
     "IN","KS","KY","LA","MA","MD","ME","MI","MN","MO","MS","MT","NC","ND","NE",
     "NH","NJ","NM","NV","NY","OH","OK","OR","PA","RI","SC","SD","TN","TX","UT",
     "VA","VT","WA","WI","WV","WY"}

\* String.prototype.toUpperCase on the words the queries below are made of
toUpperCase(w) ==
    CASE w = "West"   -> "WEST"
      [] w = "Fork"   -> "FORK"
      [] w = "Union"  -> "UNION"
      [] w = "Star"   -> "STAR"
      [] w = "Rd"     -> "RD"
      [] w = "Road"   -> "ROAD"
      [] w = "Main"   -> "MAIN"
      [] w = "St"     -> "ST"
      [] w = "Paris"  -> "PARIS"
      [] w = "France" -> "FRANCE"
      [] w = "ar"     -> "AR"
      [] w = "Usak"   -> "USAK"
      [] w = "La"     -> "LA"
      [] w = "Turkey" -> "TURKEY"
      [] w = "Greenland" -> "GREENLAND"
      [] OTHER        -> w

\* words matching \d{5} and \d{5}-\d{4}, and the ZIP5 of a ZIP+4
Zip5Words == {"72774", "72701"}
Zip9Words == {"72774-1234"}
Zip5Of(w) == IF w = "72774-1234" THEN "72774" ELSE w
\* words matching /^\d+[A-Z]?$/
HouseNumberWords == {"123", "72774", "72701", "12B"}

IsWord(w) == w # ","

\* upper-cased words matching /\bUSA/ (the word starts with USA) and words
\* matching /UNITED$/ (the word ends with UNITED)
UsaPrefixWords == {"USA", "USAK"}
UnitedSuffixWords == {"UNITED", "REUNITED"}

\* isLikelyUS: a ZIP, a state code as a whole word (any case), or a match of
\* /\bUSA|UNITED STATES\b/, in which \b binds to one side of each alternative
isLikelyUS(qry) ==
    \/ \E i \in 1..Len(qry) : qry[i] \in Zip5Words \cup Zip9Words
    \/ \E i \in 1..Len(qry) : toUpperCase(qry[i]) \in STATE_ABBR
    \/ \E i \in 1..Len(qry) : toUpperCase(qry[i]) \in UsaPrefixWords
    \/ \E i \in 1..(Len(qry) - 1) :
          /\ toUpperCase(qry[i]) \in UnitedSuffixWords
          /\ toUpperCase(qry[i + 1]) = "STATES"

\* s.replace(re, x) without the g flag: only the first match is replaced
RECURSIVE ReplaceFirst(_, _, _)
ReplaceFirst(s, from, to) ==
    IF s = <<>> THEN <<>>
    ELSE IF Head(s) \in from THEN <<to[Head(s)]>> \o Tail(s)
    ELSE <<Head(s)>> \o ReplaceFirst(Tail(s), from, to)

\* normalizeUSQuery: commas and whitespace runs become one space, the first
\* ZIP+4 becomes its ZIP5, the first "Rd" (any case) becomes "Road"
normalizeUSQuery(qry) ==
    LET s1 == SelectSeq(qry, IsWord)
        s2 == ReplaceFirst(s1, Zip9Words, [w \in Zip9Words |-> Zip5Of(w)])
        rd == {w \in Range(s2) : toUpperCase(w) = "RD"}
    IN  ReplaceFirst(s2, rd, [w \in rd |-> "Road"])

\* normalizeIntlQuery: the last replace (/[\s,]+/g -> ' ') removes the commas too
normalizeIntlQuery(qry) == SelectSeq(qry, IsWord)

\* ZIP_HINTS, keyed by <<CITY words, STATE>>
ZIP_HINTS_KEYS == {<<<<"WEST", "FORK">>, "AR">>, <<<<"GREENLAND">>, "AR">>,
                   <<<<"WINSLOW">>, "AR">>}
ZIP_HINTS(k) ==
    CASE k = <<<<"WEST", "FORK">>, "AR">> -> <<"72774">>
      [] k = <<<<"GREENLAND">>, "AR">>    -> <<"72737">>
      [] k = <<<<"WINSLOW">>, "AR">>      -> <<"72959">>

\* the comma-delimited segments of a token sequence, empty ones dropped
\* (pre.split(',').map(trim).filter(Boolean))
RECURSIVE SplitComma(_, _)
SplitComma(s, cur) ==
    IF s = <<>> THEN (IF cur = <<>> THEN <<>> ELSE <<cur>>)
    ELSE IF Head(s) = ","
         THEN (IF cur = <<>> THEN <<>> ELSE <<cur>>) \o SplitComma(Tail(s), <<>>)
         ELSE SplitComma(Tail(s), Append(cur, Head(s)))

\* parts.join(', ')
RECURSIVE JoinComma(_)
JoinComma(parts) ==
    IF parts = <<>> THEN <<>>
    ELSE IF Len(parts) = 1 THEN parts[1]
    ELSE parts[1] \o <<",">> \o JoinComma(Tail(parts))

\* splitUSAddress, lines 150-169: `pre` is the text before the state, without
\* its trailing comma; stateIdx = 0 stands for "no state found"
SplitPre(pre, stateIdx, state, zip, parts) ==
    IF stateIdx = 0
    THEN [street |-> pre, city |-> <<>>, state |-> state, zip |-> zip]
    ELSE IF Len(parts) >= 2
    THEN [street |-> JoinComma(Front(parts)), city |-> Last(parts),
          state |-> state, zip |-> zip]
    ELSE IF Len(pre) >= 3 /\ pre[1] \in HouseNumberWords
    THEN [street |-> SubSeq(pre, 1, Len(pre) - 2),
          city |-> SubSeq(pre, Len(pre) - 1, Len(pre)),
          state |-> state, zip |-> zip]
    ELSE [street |-> pre, city |-> <<>>, state |-> state, zip |-> zip]

\* pre.replace(/,\s*$/, '')
DropLastComma(pre) == IF pre # <<>> /\ Last(pre) = "," THEN Front(pre) ELSE pre

\* splitUSAddress, lines 143-150: the ZIP counts only at the end and after the state
SplitAt(qry, stateIdx) ==
    SplitPre(IF stateIdx # 0 THEN DropLastComma(SubSeq(qry, 1, stateIdx - 1)) ELSE qry,
             stateIdx,
             IF stateIdx = 0 THEN "" ELSE toUpperCase(qry[stateIdx]),
             IF /\ Len(qry) > 0 /\ Last(qry) \in Zip5Words \cup Zip9Words
                /\ stateIdx # 0 /\ Len(qry) > stateIdx
             THEN Zip5Of(Last(qry)) ELSE "",
             IF stateIdx # 0
             THEN SplitComma(DropLastComma(SubSeq(qry, 1, stateIdx - 1)), <<>>)
             ELSE <<>>)

\* the position of the first two-letter state word, 0 if none
FirstStateIdx(qry) ==
    IF \E i \in 1..Len(qry) : toUpperCase(qry[i]) \in STATE_ABBR
    THEN CHOOSE i \in 1..Len(qry) :
             /\ toUpperCase(qry[i]) \in STATE_ABBR
             /\ \A j \in 1..(i - 1) : toUpperCase(qry[j]) \notin STATE_ABBR
    ELSE 0

\* the position of the last two-letter state word (lines 139-141), 0 if none
LastStateIdx(qry) ==
    IF \E i \in 1..Len(qry) : toUpperCase(qry[i]) \in STATE_ABBR
    THEN CHOOSE i \in 1..Len(qry) :
             /\ toUpperCase(qry[i]) \in STATE_ABBR
             /\ \A j \in (i + 1)..Len(qry) : toUpperCase(qry[j]) \notin STATE_ABBR
    ELSE 0

\* splitUSAddress: {street, city, state, zip}; "" is the empty zip/state,
\* <<>> the empty street/city
splitUSAddress(qry) == SplitAt(qry, LastStateIdx(qry))

\* Array.filter with a `seen` set: the first occurrence of each element
RECURSIVE Dedup(_, _)
Dedup(s, seen) ==
    IF s = <<>> THEN <<>>
    ELSE IF Head(s) \in seen THEN Dedup(Tail(s), seen)
    ELSE <<Head(s)>> \o Dedup(Tail(s), seen \cup {Head(s)})

\* ZIP_HINTS[key] for the parsed city and state, <<>> when it is not consulted
HintsFor(p, key) ==
    IF p.zip = "" /\ p.city # <<>> /\ p.state # "" /\ key \in ZIP_HINTS_KEYS
    THEN ZIP_HINTS(key) ELSE <<>>

\* the hinted ZIPs tried without the city before they are tried with it
CombosOfNoCityFirst(p, hints) ==
    Dedup(<<p>>
          \o [i \in 1..Len(hints) |-> [p EXCEPT !.zip = hints[i], !.city = <<>>]]
          \o [i \in 1..Len(hints) |-> [p EXCEPT !.zip = hints[i]]]
          \o (IF p.zip # "" /\ p.state # "" THEN <<[p EXCEPT !.city = <<>>]>> ELSE <<>>),
          {})

\* geocodeWithCensusParts, lines 181-199: the combos to try, deduplicated
CombosOf(p, hints) ==
    Dedup(<<p>>
          \o [i \in 1..Len(hints) |-> [p EXCEPT !.zip = hints[i]]]
          \o [i \in 1..Len(hints) |-> [p EXCEPT !.zip = hints[i], !.city = <<>>]]
          \o (IF p.zip # "" /\ p.state # "" THEN <<[p EXCEPT !.city = <<>>]>> ELSE <<>>),
          {})

CombosFor(p) ==
    IF p.street = <<>> THEN <<>>
    ELSE CombosOf(p, HintsFor(p, <<[i \in 1..Len(p.city) |-> toUpperCase(p.city[i])],
                                   p.state>>))

\* geocodeWithCensusParts, lines 174-199
CensusCombos(qry) == CombosFor(splitUSAddress(qry))

-----------------------------------------------------------------------------
(* Client: smartGeocoder.geocode (unnamed/part_002, lines 252-316)          *)

\* bounds of the model
MaxHits   == 2      \* longest list of matches a provider answers with
MaxHitVal == 2      \* matches are told apart by a number 1..MaxHitVal

\* the queries typed into the search box
Queries ==
    { <<"123", "Union", "Star", "Rd", ",", "West", "Fork", ",", "AR", "72774">>,
      <<"123", "Union", "Star", "Rd", ",", "West", "Fork", ",", "AR">>,
      <<"123", "Main", "St", ",", "Greenland", ",", "AR">>,
      <<"Main", "St", "72774-1234">>,
      <<"ar">>,
      <<"Paris", ",", "France">>,
      <<"123", "Main", "St", ",", "Paris", ",", "France">>,
      <<"Usak", ",", "Turkey">> }

\* the lists of matches a provider can answer with
HitLists == UNION {[1..n -> 1..MaxHitVal] : n \in 1..MaxHits}

\* how a provider request can end.  Nominatim/Photon (library adapters):
\* an array with matches, an empty array, a rejected promise, a value that is
\* no array.  The fetch adapters: a body with matches, a body without, a
\* rejected fetch, a body that is no JSON (r.json().catch(() => ({}))), a
\* body whose matches lack the coordinates the adapter's map() reads.
LibraryStages == {1, 2, 3}
OutcomeKinds(s) ==
    IF s \in LibraryStages THEN {"hits", "empty", "reject", "nonarray"}
    ELSE {"hits", "empty", "reject", "nonjson", "badshape"}
Throws(kind) == kind \in {"reject", "badshape"}

\* the requests of the second and third try block exchanged
StageRequestPhotonFirst(s, c) ==
    CASE s = 1 -> [provider |-> "nominatim", bounded |-> TRUE,  benchmark |-> "", combo |-> 0]
      [] s = 2 -> [provider |-> "photon",    bounded |-> FALSE, benchmark |-> "", combo |-> 0]
      [] s = 3 -> [provider |-> "nominatim", bounded |-> FALSE, benchmark |-> "", combo |-> 0]
      [] s = 4 -> [provider |-> "census_oneline", bounded |-> FALSE,
                   benchmark |-> "Public_AR_Current", combo |-> 0]
      [] s = 5 -> [provider |-> "census_address", bounded |-> FALSE,
                   benchmark |-> "Public_AR_Current", combo |-> c]
      [] s = 6 -> [provider |-> "census_address", bounded |-> FALSE,
                   benchmark |-> "Public_AR_Census2020", combo |-> c]
      [] s = 7 -> [provider |-> "arcgis",   bounded |-> FALSE, benchmark |-> "", combo |-> 0]
      [] s = 8 -> [provider |-> "opencage", bounded |-> FALSE, benchmark |-> "", combo |-> 0]

\* the request each of the eight try blocks issues
StageRequest(s, c) ==
    CASE s = 1 -> [provider |-> "nominatim", bounded |-> TRUE,  benchmark |-> "", combo |-> 0]
      [] s = 2 -> [provider |-> "nominatim", bounded |-> FALSE, benchmark |-> "", combo |-> 0]
      [] s = 3 -> [provider |-> "photon",    bounded |-> FALSE, benchmark |-> "", combo |-> 0]
      [] s = 4 -> [provider |-> "census_oneline", bounded |-> FALSE,
                   benchmark |-> "Public_AR_Current", combo |-> 0]
      [] s = 5 -> [provider |-> "census_address", bounded |-> FALSE,
                   benchmark |-> "Public_AR_Current", combo |-> c]
      [] s = 6 -> [provider |-> "census_address", bounded |-> FALSE,
                   benchmark |-> "Public_AR_Census2020", combo |-> c]
      [] s = 7 -> [provider |-> "arcgis",   bounded |-> FALSE, benchmark |-> "", combo |-> 0]
      [] s = 8 -> [provider |-> "opencage", bounded |-> FALSE, benchmark |-> "", combo |-> 0]

\* the GeocodeResult list an adapter makes of a provider's matches (hits.map)
Adapt(s, raw) == [i \in 1..Len(raw) |-> [name |-> raw[i], stage |-> s]]

\* the ArcGIS call outside its try block
InTryButArcGIS(s) == s # 7

\* every stage of geocode sits in its own try { } catch {}
InTry(s) == TRUE

\* the Photon block without its return
StageReturnsButPhoton(s, value) == s # 3 /\ value # <<>>

\* `if (r?.length) return r` / `if (Array.isArray(r) && r.length) return r`
StageReturns(s, value) == value # <<>>

\* the request fired without `await`: the code runs on while it is in flight
NotAwaited(fl, c) == fl

\* the requests in flight when the code resumes after `await` of request c
Awaited(fl, c) == fl \ {c}

StagePc(s) == CASE s = 1 -> "r1" [] s = 2 -> "r2" [] s = 3 -> "r3" [] s = 4 -> "r4"
                [] s = 5 -> "r5" [] s = 6 -> "r6" [] s = 7 -> "r7" [] s = 8 -> "r8"
                [] s = 9 -> "done"
PcStage(pc) == CHOOSE s \in 1..9 : StagePc(s) = pc

\* the chain without its Public_AR_Census2020 retry
NextStageNo2020(s, isUS, combos, hasPhoton, ocFlag) ==
    CASE s \in {1, 2} -> s
      [] s = 3 -> IF hasPhoton THEN 3 ELSE IF ~isUS THEN 7 ELSE 4
      [] s = 4 -> IF isUS THEN 4 ELSE 7
      [] s = 5 -> IF combos # <<>> THEN 5 ELSE 7
      [] s \in {6, 7} -> 7
      [] s = 8 -> IF ocFlag THEN 8 ELSE 9
      [] s = 9 -> 9

\* the Census blocks without the `if (us)` around them
NextStageCensusAlways(s, isUS, combos, hasPhoton, ocFlag) ==
    CASE s \in {1, 2} -> s
      [] s = 3 -> IF hasPhoton THEN 3 ELSE 4
      [] s = 4 -> 4
      [] s \in {5, 6} -> IF combos # <<>> THEN s ELSE 7
      [] s = 7 -> 7
      [] s = 8 -> IF ocFlag THEN 8 ELSE 9
      [] s = 9 -> 9

\* the OpenCage block without the OPENCAGE_ENABLED test around it
NextStageOpenCageAlways(s, isUS, combos, hasPhoton, ocFlag) ==
    CASE s \in {1, 2} -> s
      [] s = 3 -> IF hasPhoton THEN 3
                  ELSE IF ~isUS THEN 7
                  ELSE 4
      [] s = 4 -> IF isUS THEN 4 ELSE 7
      [] s \in {5, 6} -> IF combos # <<>> THEN s ELSE 7
      [] s = 7 -> 7
      [] s = 8 -> 8
      [] s = 9 -> 9

\* Where control goes when it reaches the top of try block s (9: `return []`):
\* the block that issues the next request, skipping the blocks whose guard is
\* closed or that return without a request.  `combos` is what
\* geocodeWithCensusParts would try for q.
NextStage(s, isUS, combos, hasPhoton, ocFlag) ==
    CASE s \in {1, 2} -> s
      [] s = 3 -> IF hasPhoton THEN 3
                  ELSE IF ~isUS THEN 7
                  ELSE 4
      [] s = 4 -> IF isUS THEN 4 ELSE 7
      [] s \in {5, 6} -> IF combos # <<>> THEN s ELSE 7
      [] s = 7 -> 7
      [] s = 8 -> IF ocFlag THEN 8 ELSE 9
      [] s = 9 -> 9

\* control arrives at the top of try block s with `fl` still in flight and
\* goes on to block n
Arrive(s, n, fl, combos) ==
    /\ gpc' = StagePc(n)
    /\ uniq' = IF n \in {5, 6} THEN combos ELSE <<>>
    /\ ci' = IF n \in {5, 6} THEN 1 ELSE 0
    /\ ocSeen' = IF s = 8 THEN (IF n = 8 THEN "yes" ELSE "no") ELSE ocSeen
    /\ IF n = 9
       THEN /\ result' = <<>>
            /\ inflight' = fl
            /\ calls' = calls
       ELSE /\ result' = result
            /\ inflight' = fl \cup {StageRequest(n, IF n \in {5, 6} THEN 1 ELSE 0)}
            /\ calls' = Append(calls, StageRequest(n, IF n \in {5, 6} THEN 1 ELSE 0))

GoToWith(s, fl, combos) ==
    Arrive(s, NextStage(s, us, combos, photon, opencageEnabled), fl, combos)

GoTo(s, fl) == GoToWith(s, fl, IF us THEN CensusCombos(q) ELSE <<>>)

\* geocode(query, ctx) is called: lines 254-263, up to the first await
Geocode(qry) ==
    /\ gpc = "idle"
    /\ query' = qry
    /\ us' = isLikelyUS(qry)
    /\ q' = IF isLikelyUS(qry) THEN normalizeUSQuery(qry) ELSE normalizeIntlQuery(qry)
    /\ gpc' = "r1"
    /\ inflight' = inflight \cup {StageRequest(1, 0)}
    /\ calls' = Append(calls, StageRequest(1, 0))
    /\ UNCHANGED <<uniq, ci, resps, result, threw, lastKind, ocSeen, photon,
                   opencageEnabled, serverHasKey, configPc>>
    /\ UNCHANGED <<tipVars, keyVars, cliVars>>

\* the awaited request settles and geocode runs on to its next await or return
Settle(kind, raw) ==
    /\ gpc \in {"r1", "r2", "r3", "r4", "r5", "r6", "r7", "r8"}
    /\ LET s     == PcStage(gpc)
           c     == StageRequest(s, ci)
           value == IF kind = "hits" THEN Adapt(s, raw) ELSE <<>>
           fl    == Awaited(inflight, c)
       IN  /\ kind \in OutcomeKinds(s)
           /\ c \in inflight
           /\ resps' = Append(resps, value)
           /\ lastKind' = kind
           /\ IF Throws(kind) /\ ~InTry(s)
              THEN /\ threw' = TRUE
                   /\ gpc' = "done"
                   /\ inflight' = fl
                   /\ UNCHANGED <<uniq, ci, calls, result, ocSeen>>
              ELSE /\ threw' = threw
                   /\ IF ~Throws(kind) /\ StageReturns(s, value)
                      THEN /\ result' = value
                           /\ gpc' = "done"
                           /\ inflight' = fl
                           /\ UNCHANGED <<uniq, ci, calls, ocSeen>>
                      ELSE IF ~Throws(kind) /\ s \in {5, 6} /\ ci < Len(uniq)
                      THEN \* the for loop of geocodeWithCensusParts goes on
                           /\ ci' = ci + 1
                           /\ inflight' = fl \cup {StageRequest(s, ci + 1)}
                           /\ calls' = Append(calls, StageRequest(s, ci + 1))
                           /\ UNCHANGED <<gpc, uniq, result, ocSeen>>
                      ELSE GoTo(s + 1, fl)
    /\ UNCHANGED <<query, us, q, photon, opencageEnabled, serverHasKey, configPc>>
    /\ UNCHANGED <<tipVars, keyVars, cliVars>>

\* part_002 lines 4-6: the answer to fetch('/api/config') arrives (or the
\* fetch fails and the catch leaves the flag alone)
ConfigSettles(ok) ==
    /\ configPc = "pending"
    /\ configPc' = "settled"
    /\ opencageEnabled' = IF ok /\ serverHasKey THEN TRUE ELSE opencageEnabled
    /\ UNCHANGED <<gpc, query, us, q, uniq, ci, inflight, calls, resps, result, threw,
                   lastKind, ocSeen, photon, serverHasKey>>
    /\ UNCHANGED <<tipVars, keyVars, cliVars>>

-----------------------------------------------------------------------------
(* Server: tips API (src/server.js, lines 269-366)                          *)

\* bound of the model
MaxTips == 2        \* tips ever posted (ids handed out by crypto.randomUUID)

\* the null a handler gets from tipKeyFrom
NullKey == <<Null>>

\* markerIndex tested for truthiness, as siteId is: index 0 gives no key
tipKeyFromTruthyIndex(obj) ==
    IF IsSome(obj.key) /\ Includes(Val(obj.key), ":") THEN Val(obj.key)
    ELSE IF IsSome(obj.siteId) /\ Val(obj.siteId) # <<>>
         THEN <<"u", "s", "g", "s", ":">> \o Val(obj.siteId)
    ELSE IF IsSome(obj.markerIndex) /\ Val(obj.markerIndex) # 0
         THEN <<"c", "u", "s", "t", "o", "m", ":">> \o NumToStr(Val(obj.markerIndex))
    ELSE NullKey

\* tipKeyFrom(obj): obj.key / obj.siteId are optional character strings,
\* obj.markerIndex an optional number
tipKeyFrom(obj) ==
    IF IsSome(obj.key) /\ Includes(Val(obj.key), ":") THEN Val(obj.key)
    ELSE IF IsSome(obj.siteId) /\ Val(obj.siteId) # <<>>
         THEN <<"u", "s", "g", "s", ":">> \o Val(obj.siteId)
    ELSE IF IsSome(obj.markerIndex)
         THEN <<"c", "u", "s", "t", "o", "m", ":">> \o NumToStr(Val(obj.markerIndex))
    ELSE NullKey

\* findIndex counting positions from one
FindIndexByIdOneBased(arr, id) ==
    IF \E i \in 1..Len(arr) : arr[i].id = id
    THEN CHOOSE i \in 1..Len(arr) : arr[i].id = id /\ \A j \in 1..(i - 1) : arr[j].id # id
    ELSE -1

\* arr.findIndex(t => t.id === id), as a JavaScript (0-based) index, -1 if none
FindIndexById(arr, id) ==
    IF \E i \in 1..Len(arr) : arr[i].id = id
    THEN (CHOOSE i \in 1..Len(arr) :
              arr[i].id = id /\ \A j \in 1..(i - 1) : arr[j].id # id) - 1
    ELSE -1

\* findTipIndex(arr, {id, index}): id and index are optional
findTipIndex(arr, id, index) ==
    IF IsSome(id) /\ FindIndexById(arr, Val(id)) # -1 THEN FindIndexById(arr, Val(id))
    ELSE IF IsSome(index) THEN Val(index)
    ELSE -1

\* arr[i] is there (not undefined), i a JavaScript index
At(arr, i) == i >= 0 /\ i < Len(arr)
\* arr.pop() in the place of arr.splice(i, 1)
SplicePop(arr, i) == SubSeq(arr, 1, Len(arr) - 1)

\* arr.shift() in the place of arr.splice(i, 1)
SpliceShift(arr, i) == Tail(arr)

\* arr.splice(i, 1)
Splice(arr, i) == SubSeq(arr, 1, i) \o SubSeq(arr, i + 2, Len(arr))

\* arr.unshift(tip) in the place of arr.push(tip)
Unshift(arr, tip) == <<tip>> \o arr

\* arr.push(tip)
Push(arr, tip) == Append(arr, tip)

\* all[key] || []
Group(all, key) == IF key \in DOMAIN all THEN all[key] ELSE <<>>
\* a write that puts back the group alone, not the collection it was read from
StoreAlone(all, key, arr) == [k \in {key} |-> arr]
\* all[key] = arr; writeTips(all)
Store(all, key, arr) == [k \in DOMAIN all \cup {key} |-> IF k = key THEN arr ELSE all[k]]

\* the filter without its owner test: a viewer sees every draft
VisibleAnyDraft(t, viewer) ==
    \/ t.status = "published"
    \/ Truthy(viewer) /\ t.status = "draft"

\* the filter of GET /api/tips (line 291)
Visible(t, viewer) ==
    \/ t.status = "published"
    \/ Truthy(viewer) /\ Truthy(t.userId) /\ t.userId = viewer /\ t.status = "draft"

\* the guard without `userId &&`: a request without user id is refused too
NotYourDraftStrict(t, userId) == Truthy(t.userId) /\ t.userId # userId

\* the guard of PUT /api/tips/publish (line 348)
NotYourDraft(t, userId) == Truthy(t.userId) /\ Truthy(userId) /\ t.userId # userId

\* publish as a toggle
Toggled(t) == [t EXCEPT !.status = IF t.status = "draft" THEN "published" ELSE "draft"]

\* a publish that also disowns the tip
PublishedDisowned(t) == [t EXCEPT !.status = "published", !.userId = Null]

\* PUT /api/tips/publish, line 351: t.status = 'published'
Published(t) == [t EXCEPT !.status = "published"]

\* the status POST /api/tips gives a new tip (line 308)
NewStatus(status) == IF status = "draft" THEN "draft" ELSE "published"

\* What requests carry.  Tips are posted by user A or without a user id; B is
\* another user.
Targets  ==
    { [key |-> None, siteId |-> Some(<<"7">>), markerIndex |-> None],
      [key |-> None, siteId |-> None,          markerIndex |-> Some(0)],
      [key |-> None, siteId |-> None,          markerIndex |-> None] }
Uids     == {Undefined, "", "A", "B"}
Authors  == {Undefined, "A"}
\* a tip is addressed by id, by index, or not at all
Addrs    == {<<None, None>>} \cup {<<Some(i), None>> : i \in 1..MaxTips}
                             \cup {<<None, Some(i)>> : i \in 0..(MaxTips - 1)}
Indexes  == {None} \cup {Some(i) : i \in 0..(MaxTips - 1)}
\* PUT bodies: <<text, photoUrl>>; photoUrl None when the body has no such property
Updates  == {<<"t2", None>>, <<Undefined, Some(Null)>>, <<Undefined, None>>}
NoTarget == [key |-> None, siteId |-> None, markerIndex |-> None]
\* a request the handler rejects before it looks at the address is sent with
\* no address and no user id
PutRequests ==
    {r \in Targets \X Addrs \X Updates \X {Undefined, "B"} :
        (r[1] = NoTarget \/ r[3] = <<Undefined, None>>)
            => (r[2] = <<None, None>> /\ r[4] = Undefined)}
PublishRequests ==
    {r \in Targets \X Addrs \X Uids :
        r[1] = NoTarget => (r[2] = <<None, None>> /\ r[3] = Undefined)}

\* a response, with what the request asked: the target key it resolved to,
\* the user id it presented (viewer / userId), the id and index it addressed,
\* and whether the handler called readTips() on its way to the response
Response(op, key, uid, id, index, code, body, read) ==
    [op |-> op, key |-> key, uid |-> uid, id |-> id,
     index |-> index, code |-> code, body |-> body, read |-> read]

\* no response is being sent: the server is idle
NoResponse == Response("none", NullKey, Undefined, None, None, 0, <<>>, FALSE)

\* the empty default of tips.json, {} (that of markers.json, [], is <<>>)
EmptyStore == <<>>

\* JSON.parse(fs.readFileSync(file)) without the try around it
readJSONSafeUnchecked(ok, content, fallback) == content

\* readJSONSafe(file, fallback): the parsed content; when the file cannot be
\* read or parsed, the fallback, which is also written over the file
readJSONSafe(ok, content, fallback) == IF ok THEN content ELSE fallback
readTips    == readJSONSafe(tipsFile # "damaged", tips, EmptyStore)
readMarkers == readJSONSafe(markersFile # "damaged", markers, <<>>)

\* a file after a step: a damaged file that was read has been reset (and
\* console.warn has logged the recovery), one that was not read stays damaged
AfterStep(file, read) ==
    IF file = "damaged" THEN (IF read THEN "reset" ELSE "damaged") ELSE "sound"
\* the files after a tips handler, which has called readTips() iff resp'.read
TipsFileRead ==
    /\ tipsFile' = AfterStep(tipsFile, resp'.read)
    /\ markersFile' = AfterStep(markersFile, FALSE)
\* the files after a markers handler, which has called readMarkers() iff it
\* got past its validation
MarkersFileRead ==
    /\ markersFile' = AfterStep(markersFile, resp'.code # 400)
    /\ tipsFile' = AfterStep(tipsFile, FALSE)

\* app.get('/api/tips')
HandleGetTips(tgt, viewerParam) ==
    LET key    == tipKeyFrom(tgt)
        viewer == OrElse(viewerParam, Null)
        raw    == Group(readTips, key)
        out    == SelectSeq(raw, LAMBDA t : Visible(t, viewer))
    IN  /\ resp = NoResponse
        /\ resp' = Response("get", key, viewerParam, None, None, 200,
                            IF key = NullKey THEN <<>> ELSE out, key # NullKey)
        /\ tips' = IF key = NullKey THEN tips ELSE readTips
        /\ TipsFileRead
        /\ UNCHANGED <<markers, nextId>>
        /\ UNCHANGED <<geoVars, keyVars>>

\* ... for a client whose panel the model does not follow
GetTips(tgt, viewerParam) ==
    HandleGetTips(tgt, viewerParam) /\ UNCHANGED cliVars

\* app.post('/api/tips')
PostTip(tgt, text, userId, photoUrl, status) ==
    LET key == tipKeyFrom(tgt)
        tip == [id |-> nextId + 1, text |-> text, userId |-> OrElse(userId, Null),
                photoUrl |-> OrElse(photoUrl, Null), status |-> NewStatus(status)]
    IN  /\ resp = NoResponse
        /\ nextId < MaxTips
        /\ IF key = NullKey \/ ~Truthy(text)
           THEN /\ resp' = Response("post", key, userId, None, None, 400, <<>>, FALSE)
                /\ UNCHANGED <<tips, markers, nextId>>
           ELSE /\ tips' = Store(readTips, key, Push(Group(readTips, key), tip))
                /\ nextId' = nextId + 1
                /\ resp' = Response("post", key, userId, None, None, 201, <<tip>>, TRUE)
        /\ TipsFileRead
        /\ UNCHANGED markers
        /\ UNCHANGED <<geoVars, keyVars, cliVars>>

\* app.put('/api/tips'); photoUrl is None when the body has no such property
HandlePutTip(tgt, id, index, text, photoUrl, userId) ==
    LET key == tipKeyFrom(tgt)
        arr == Group(readTips, key)
        i   == findTipIndex(arr, id, index)
        t1  == IF Truthy(text) THEN [arr[i + 1] EXCEPT !.text = text] ELSE arr[i + 1]
        t2  == IF IsSome(photoUrl) THEN [t1 EXCEPT !.photoUrl = Val(photoUrl)] ELSE t1
    IN  /\ resp = NoResponse
        /\ IF key = NullKey \/ (~Truthy(text) /\ ~IsSome(photoUrl))
           THEN /\ resp' = Response("put", key, userId, id, index, 400, <<>>, FALSE)
                /\ UNCHANGED tips
           ELSE IF i < 0 \/ ~At(arr, i)
           THEN /\ resp' = Response("put", key, userId, id, index, 404, <<>>, TRUE)
                /\ tips' = readTips
           ELSE /\ tips' = Store(readTips, key, [arr EXCEPT ![i + 1] = t2])
                /\ resp' = Response("put", key, userId, id, index, 200, <<t2>>, TRUE)
        /\ TipsFileRead
        /\ UNCHANGED <<markers, nextId>>
        /\ UNCHANGED <<geoVars, keyVars>>

\* ... for a client whose panel the model does not follow
PutTip(tgt, id, index, text, photoUrl, userId) ==
    HandlePutTip(tgt, id, index, text, photoUrl, userId) /\ UNCHANGED cliVars

\* app.put('/api/tips/publish').  With i past the end of arr, `t` is undefined
\* and `t.userId` throws: Express answers 500 and nothing is written.
PublishTip(tgt, id, index, userId) ==
    LET key == tipKeyFrom(tgt)
        arr == Group(readTips, key)
        i   == findTipIndex(arr, id, index)
        t   == Published(arr[i + 1])
    IN  /\ resp = NoResponse
        /\ IF key = NullKey
           THEN /\ resp' = Response("publish", key, userId, id, index, 400, <<>>, FALSE)
                /\ UNCHANGED tips
           ELSE IF i < 0
           THEN /\ resp' = Response("publish", key, userId, id, index, 404, <<>>, TRUE)
                /\ tips' = readTips
           ELSE IF ~At(arr, i)
           THEN /\ resp' = Response("publish", key, userId, id, index, 500, <<>>, TRUE)
                /\ tips' = readTips
           ELSE IF NotYourDraft(arr[i + 1], userId)
           THEN /\ resp' = Response("publish", key, userId, id, index, 403, <<>>, TRUE)
                /\ tips' = readTips
           ELSE /\ tips' = Store(readTips, key, [arr EXCEPT ![i + 1] = t])
                /\ resp' = Response("publish", key, userId, id, index, 200, <<t>>, TRUE)
        /\ TipsFileRead
        /\ UNCHANGED <<markers, nextId>>
        /\ UNCHANGED <<geoVars, keyVars, cliVars>>

\* app.delete('/api/tips')
HandleDeleteTip(tgt, index) ==
    LET key == tipKeyFrom(tgt) IN
    /\ resp = NoResponse
    /\ IF key = NullKey \/ ~IsSome(index)
       THEN /\ resp' = Response("delete", key, Undefined, None, index, 400, <<>>, FALSE)
            /\ UNCHANGED tips
       ELSE IF key \notin DOMAIN readTips \/ ~At(readTips[key], Val(index))
       THEN /\ resp' = Response("delete", key, Undefined, None, index, 404, <<>>, TRUE)
            /\ tips' = readTips
       ELSE /\ tips' = Store(readTips, key, Splice(readTips[key], Val(index)))
            /\ resp' = Response("delete", key, Undefined, None, index, 204, <<>>, TRUE)
    /\ TipsFileRead
    /\ UNCHANGED <<markers, nextId>>
    /\ UNCHANGED <<geoVars, keyVars>>

\* ... for a client whose panel the model does not follow
DeleteTip(tgt, index) ==
    HandleDeleteTip(tgt, index) /\ UNCHANGED cliVars

-----------------------------------------------------------------------------
(* Server: markers API (src/server.js, lines 203-233)                       *)

\* bound of the model
MaxMarkers == 2     \* longest marker list

\* what marker requests carry: lat/lon are optional numbers
Coords == {None, Some(36)}
MarkerIndexParams == {None} \cup {Some(i) : i \in 0..MaxMarkers}

\* app.get('/api/markers')
GetMarkers ==
    /\ resp = NoResponse
    /\ resp' = Response("getMarkers", NullKey, Undefined, None, None, 200, readMarkers, FALSE)
    /\ markers' = readMarkers
    /\ MarkersFileRead
    /\ UNCHANGED <<tips, nextId>>
    /\ UNCHANGED <<geoVars, keyVars, cliVars>>

\* app.post('/api/markers')
PostMarker(lat, lon, title, userId) ==
    LET marker == [lat |-> lat, lon |-> lon, title |-> title,
                   userId |-> OrElse(userId, Null)]
    IN  /\ resp = NoResponse
        /\ Len(readMarkers) < MaxMarkers
        /\ IF ~IsSome(lat) \/ ~IsSome(lon) \/ ~Truthy(title)
           THEN /\ resp' = Response("postMarker", NullKey, Undefined, None, None, 400, <<>>, FALSE)
                /\ UNCHANGED markers
           ELSE /\ markers' = Append(readMarkers, marker)
                /\ resp' = Response("postMarker", NullKey, Undefined, None, None, 201,
                                    <<marker>>, FALSE)
        /\ MarkersFileRead
        /\ UNCHANGED <<tips, nextId>>
        /\ UNCHANGED <<geoVars, keyVars, cliVars>>

\* app.put('/api/markers'): the stored marker is replaced by one without userId
PutMarker(index, lat, lon, title) ==
    LET marker == [lat |-> lat, lon |-> lon, title |-> title, userId |-> Undefined]
    IN  /\ resp = NoResponse
        /\ IF ~IsSome(index) \/ ~Truthy(title)
           THEN /\ resp' = Response("putMarker", NullKey, Undefined, None, index, 400, <<>>, FALSE)
                /\ UNCHANGED markers
           ELSE IF ~At(readMarkers, Val(index))
           THEN /\ resp' = Response("putMarker", NullKey, Undefined, None, index, 404, <<>>, FALSE)
                /\ markers' = readMarkers
           ELSE /\ markers' = [readMarkers EXCEPT ![Val(index) + 1] = marker]
                /\ resp' = Response("putMarker", NullKey, Undefined, None, index, 200,
                                    <<marker>>, FALSE)
        /\ MarkersFileRead
        /\ UNCHANGED <<tips, nextId>>
        /\ UNCHANGED <<geoVars, keyVars, cliVars>>

\* what the panel of the marker at index j sends as target
CustomTarget(j) == [key |-> None, siteId |-> None, markerIndex |-> Some(j)]

\* a DELETE /api/markers that also drops the tips of the deleted marker
DeleteMarkerWithTips(index) ==
    /\ resp = NoResponse
    /\ IF ~IsSome(index)
       THEN /\ resp' = Response("deleteMarker", NullKey, Undefined, None, index, 400, <<>>, FALSE)
            /\ UNCHANGED <<markers, tips>>
       ELSE IF ~At(readMarkers, Val(index))
       THEN /\ resp' = Response("deleteMarker", NullKey, Undefined, None, index, 404, <<>>, FALSE)
            /\ markers' = readMarkers
            /\ UNCHANGED tips
       ELSE /\ markers' = Splice(readMarkers, Val(index))
            /\ tips' = [k \in DOMAIN tips \ {tipKeyFrom(CustomTarget(Val(index)))} |-> tips[k]]
            /\ resp' = Response("deleteMarker", NullKey, Undefined, None, index, 204, <<>>, FALSE)
    /\ MarkersFileRead
    /\ UNCHANGED nextId
    /\ UNCHANGED <<geoVars, keyVars, cliVars>>

\* app.delete('/api/markers')
DeleteMarker(index) ==
    /\ resp = NoResponse
    /\ IF ~IsSome(index)
       THEN /\ resp' = Response("deleteMarker", NullKey, Undefined, None, index, 400, <<>>, FALSE)
            /\ UNCHANGED markers
       ELSE IF ~At(readMarkers, Val(index))
       THEN /\ resp' = Response("deleteMarker", NullKey, Undefined, None, index, 404, <<>>, FALSE)
            /\ markers' = readMarkers
       ELSE /\ markers' = Splice(readMarkers, Val(index))
            /\ resp' = Response("deleteMarker", NullKey, Undefined, None, index, 204, <<>>, FALSE)
    /\ MarkersFileRead
    /\ UNCHANGED <<tips, nextId>>
    /\ UNCHANGED <<geoVars, keyVars, cliVars>>

-----------------------------------------------------------------------------
(* Server: migrateTipKeysOnce, run when the process starts                  *)
(* (src/server.js, lines 250-267)                                           *)

\* /^\d{7,15}$/
SiteIdMinDigits == 7
SiteIdMaxDigits == 15
DigitChars == {"0", "1", "2", "3", "4", "5", "6", "7", "8", "9"}
AllDigits(k) == \A i \in 1..Len(k) : k[i] \in DigitChars

\* the test without its length bounds: /^\d+$/
IsSiteIdAnyLength(k) == AllDigits(k)

\* /^\d{7,15}$/.test(k)
IsSiteId(k) == AllDigits(k) /\ Len(k) >= SiteIdMinDigits /\ Len(k) <= SiteIdMaxDigits

\* the loop body without its `!k.includes(':')` test
MigratedKeyAlways(k) ==
    IF IsSiteId(k) THEN <<"u", "s", "g", "s", ":">> \o k
    ELSE <<"c", "u", "s", "t", "o", "m", ":">> \o k

\* nk of the loop body
MigratedKey(k) ==
    IF Includes(k, ":") THEN k
    ELSE IF IsSiteId(k) THEN <<"u", "s", "g", "s", ":">> \o k
    ELSE <<"c", "u", "s", "t", "o", "m", ":">> \o k

\* stands for a value of tips.json that is no array (an object, a string, a
\* number): no tip has a negative id
NotArray == <<[id |-> -1, text |-> "<notarray>", userId |-> Null,
               photoUrl |-> Null, status |-> "<notarray>"]>>
\* Array.isArray(arr) ? arr : []
ArrayOr(v) == IF v = NotArray THEN <<>> ELSE v

\* Object.entries(all) lists the keys that are array indexes (canonical
\* numerals below 2^32 - 1; here: up to nine digits) first, in ascending
\* order, and then the other keys in the order of the file
IsArrayIndex(k) == AllDigits(k) /\ Len(k) >= 1 /\ Len(k) <= 9 /\ (Len(k) = 1 \/ k[1] # "0")

\* the keys of `all` written to next[nk], and those whose value may be the
\* last one written: of a legacy key and its prefixed form, both present, the
\* prefixed one is written last when the legacy key is an array index, and
\* either may be last (the order of the file decides) otherwise
Sources(all, nk) == {k \in DOMAIN all : MigratedKey(k) = nk}
LastWritten(all, nk) ==
    IF nk \in DOMAIN all /\ \E k \in Sources(all, nk) : k # nk /\ IsArrayIndex(k)
    THEN {nk}
    ELSE Sources(all, nk)

\* `next` started as a copy of `all`: the legacy keys stay beside the new ones
MigrationsKeepOld(all) ==
    IF \A k \in DOMAIN all : MigratedKey(k) = k THEN {all}
    ELSE {[k \in DOMAIN all \cup {MigratedKey(x) : x \in DOMAIN all} |->
              IF k \in DOMAIN all THEN ArrayOr(all[k])
              ELSE ArrayOr(all[CHOOSE x \in DOMAIN all : MigratedKey(x) = k])]}

\* the stores migrateTipKeysOnce can leave behind: `all` itself when no key
\* changes (nothing is written), else `next`
Migrations(all) ==
    IF \A k \in DOMAIN all : MigratedKey(k) = k THEN {all}
    ELSE LET nks == {MigratedKey(k) : k \in DOMAIN all}
         IN  {[nk \in nks |-> ArrayOr(all[w[nk]])] :
                 w \in {f \in [nks -> DOMAIN all] :
                           \A nk \in nks : f[nk] \in LastWritten(all, nk)}}

\* the process is starting: the module body runs before app.listen
Booting == Response("boot", NullKey, Undefined, None, None, 0, <<>>, FALSE)

\* (function migrateTipKeysOnce() { ... })()
migrateTipKeysOnce ==
    /\ resp = Booting
    /\ tips' \in Migrations(readTips)
    /\ resp' = NoResponse
    /\ tipsFile' = AfterStep(tipsFile, TRUE)
    /\ markersFile' = AfterStep(markersFile, FALSE)
    /\ UNCHANGED <<markers, nextId>>
    /\ UNCHANGED <<geoVars, keyVars, cliVars>>

\* the process is stopped and started again over the same data files
Restart ==
    /\ resp = NoResponse
    /\ resp' = Booting
    /\ tipsFile' = AfterStep(tipsFile, FALSE)
    /\ markersFile' = AfterStep(markersFile, FALSE)
    /\ UNCHANGED <<tips, markers, nextId>>
    /\ UNCHANGED <<geoVars, keyVars, cliVars>>

\* a data file is damaged behind the server's back, between two handlers (a
\* torn write, an edit by hand, a removed file): readFileSync or JSON.parse
\* will throw on it.  What it held is kept as the text a lenient reader
\* would still find.
DamageTips ==
    /\ resp \in {NoResponse, Booting}
    /\ tipsFile # "damaged"
    /\ tipsFile' = "damaged"
    /\ markersFile' = AfterStep(markersFile, FALSE)
    /\ UNCHANGED <<tips, markers, nextId, resp>>
    /\ UNCHANGED <<geoVars, keyVars, cliVars>>

DamageMarkers ==
    /\ resp \in {NoResponse, Booting}
    /\ markersFile # "damaged"
    /\ markersFile' = "damaged"
    /\ tipsFile' = AfterStep(tipsFile, FALSE)
    /\ UNCHANGED <<tips, markers, nextId, resp>>
    /\ UNCHANGED <<geoVars, keyVars, cliVars>>

\* the response has been sent (res.json / res.end): the server is idle again
Respond ==
    /\ resp # NoResponse /\ resp # Booting
    /\ resp' = NoResponse
    /\ tipsFile' = AfterStep(tipsFile, FALSE)
    /\ markersFile' = AfterStep(markersFile, FALSE)
    /\ UNCHANGED <<tips, markers, nextId>>
    /\ UNCHANGED <<geoVars, keyVars, cliVars>>

-----------------------------------------------------------------------------
(* Client: the tips panel (unnamed/part_002, lines 811-918), for the marker *)
(* at index 0, in the browser of user A                                     *)

\* what the panel of the marker at index 0 sends as target
MarkerTarget == [key |-> None, siteId |-> None, markerIndex |-> Some(0)]

\* no click is being handled
NoClick == [op |-> "none", want |-> 0, got |-> 0]

\* the ids of the tips of a group
GroupIds(all, key) == {Group(all, key)[j].id : j \in 1..Len(Group(all, key))}
\* the tip a step took out of the group (0: none)
Gone(key) ==
    IF GroupIds(tips, key) \ GroupIds(tips', key) = {} THEN 0
    ELSE CHOOSE x \in GroupIds(tips, key) \ GroupIds(tips', key) : TRUE
\* the tip a PUT answered with (0: none)
Answered == IF resp'.code = 200 THEN resp'.body[1].id ELSE 0

\* renderInlineTips: GET /api/tips?markerIndex=0&viewer=A, one <li> per tip
\* with data-tip-index (its position in the response) and data-tip-id.  Every
\* click handler ends with it (`await fetch(...); return renderInlineTips()`);
\* the panel takes one click at a time.
renderInlineTips ==
    /\ HandleGetTips(MarkerTarget, "A")
    /\ listing' = [j \in 1..Len(resp'.body) |-> resp'.body[j].id]
    /\ clicked' = NoClick
    /\ UNCHANGED sugVars

\* click on delete-tip of the item with data-tip-index i:
\* DELETE /api/tips {markerIndex, index: idx}
ClickDelete(i) ==
    /\ clicked = NoClick
    /\ i >= 0 /\ i < Len(listing)
    /\ HandleDeleteTip(MarkerTarget, Some(i))
    /\ clicked' = [op |-> "delete", want |-> listing[i + 1],
                   got |-> Gone(tipKeyFrom(MarkerTarget))]
    /\ UNCHANGED <<listing, sugVars>>

\* submit of the edit form of the item with data-tip-index i:
\* PUT /api/tips {markerIndex, id: tipId, text}
SubmitEdit(i) ==
    /\ clicked = NoClick
    /\ i >= 0 /\ i < Len(listing)
    /\ HandlePutTip(MarkerTarget, Some(listing[i + 1]), None, "t2", None, Undefined)
    /\ clicked' = [op |-> "putById", want |-> listing[i + 1], got |-> Answered]
    /\ UNCHANGED <<listing, sugVars>>

\* a caller of the legacy form of PUT /api/tips, {markerIndex, index, text},
\* with the index of an item of the listing
PutByIndex(i) ==
    /\ clicked = NoClick
    /\ i >= 0 /\ i < Len(listing)
    /\ HandlePutTip(MarkerTarget, None, Some(i), "t2", None, Undefined)
    /\ clicked' = [op |-> "putByIndex", want |-> listing[i + 1], got |-> Answered]
    /\ UNCHANGED <<listing, sugVars>>

-----------------------------------------------------------------------------
(* Client: smartGeocoder.suggest (unnamed/part_002, lines 318-327)          *)

\* bound of the model
MaxSuggests == 2    \* suggest requests issued in one behaviour

\* a value that is no array, as photon.suggest may resolve with
NonArrayValue == <<0>>

\* nothing has been delivered to suggest
NoSuggestion == [kind |-> "none", value |-> <<>>]

\* photon.suggest(q, ctx)
SuggestRequest(qn) == [provider |-> "photon", op |-> "suggest", q |-> qn]

\* `return s` in the place of `return Array.isArray(s) ? s : []`
ArrayOrEmptyUnchecked(kind, value) == value

\* Array.isArray(s) ? s : []
ArrayOrEmpty(kind, value) == IF kind \in {"hits", "empty"} THEN value ELSE <<>>

\* suggest(query, ctx) is called: lines 319-322, up to the await
Suggest(qry) ==
    /\ spc \in {"idle", "done"}
    /\ Len(scalls) < MaxSuggests
    /\ IF ~photon
       THEN /\ spc' = "done"
            /\ sresult' = <<>>
            /\ UNCHANGED <<scalls, sresp, sthrew>>
       ELSE /\ spc' = "wait"
            /\ scalls' = Append(scalls,
                   SuggestRequest(IF isLikelyUS(qry) THEN normalizeUSQuery(qry)
                                  ELSE normalizeIntlQuery(qry)))
            /\ UNCHANGED <<sresp, sresult, sthrew>>
    /\ UNCHANGED <<listing, clicked>>
    /\ UNCHANGED <<geoVars, tipVars, keyVars>>

\* photon.suggest settles: an array with matches, an empty array, a rejected
\* promise, or a value that is no array (delivered as it came)
SuggestSettles(kind, raw) ==
    /\ spc = "wait"
    /\ kind \in OutcomeKinds(3)
    /\ spc' = "done"
    /\ sresp' = [kind |-> kind, value |-> raw]
    /\ sresult' = IF Throws(kind) THEN <<>> ELSE ArrayOrEmpty(kind, raw)
    /\ UNCHANGED <<scalls, sthrew>>
    /\ UNCHANGED <<listing, clicked>>
    /\ UNCHANGED <<geoVars, tipVars, keyVars>>

-----------------------------------------------------------------------------
(* Server: the caching proxies (src/server.js, lines 379-394, 453, 513-566) *)

\* bounds of the model.  The source has OC_MAX_ENTRIES = 300 and TTLs of 5 and
\* 10 minutes; the model keeps their order and counts time in ticks.
OC_MAX_ENTRIES == 2     \* capacity of ocCache
OC_TTL_MS == 1          \* an OpenCage entry older than this is expired
WIKI_TTL_MS == 2        \* a Wikipedia entry of at least this age is expired
MaxNow == 3             \* the clock stops here
MaxInFlight == 2        \* upstream fetches awaited at one time

\* cache keys: JSON.stringify({q, limit, ...}) / `${lat}:${lon}:${km}:${limit}`
OcKeys == 1..(OC_MAX_ENTRIES + 1)
WikiKeys == 1..2

\* what a step of a proxy handler did: answered from the "cache", started a
\* "fetch", "stored" the upstream's answer and passed it on, "passed" on an
\* upstream failure, or "refused" the request before looking at the cache;
\* `gone` is the key ocGet or ocSet deleted (0: none)
NoProxyStep == [op |-> "none", k |-> 0, src |-> "none", gone |-> 0]
ProxyStep(op, k, src, gone) == [op |-> op, k |-> k, src |-> src, gone |-> gone]

\* Map.get(key): the position of the entry of key k, 0 if there is none
RowOf(cache, k) ==
    IF \E i \in 1..Len(cache) : cache[i].k = k
    THEN CHOOSE i \in 1..Len(cache) : cache[i].k = k
    ELSE 0

\* Map.delete(key)
MapDelete(cache, k) == SelectSeq(cache, LAMBDA e : e.k # k)

\* Map.set(key, {t}): an existing key keeps its place
MapSet(cache, k, t) ==
    IF RowOf(cache, k) # 0
    THEN [cache EXCEPT ![RowOf(cache, k)] = [k |-> k, t |-> t]]
    ELSE Append(cache, [k |-> k, t |-> t])

\* ocGet with no age test
ocGetAnyAge(cache, k, t) ==
    IF RowOf(cache, k) = 0 THEN None ELSE Some(cache[RowOf(cache, k)])

\* ocGet(key), the value returned: null (None) or the row
ocGet(cache, k, t) ==
    IF RowOf(cache, k) = 0 THEN None
    ELSE IF t - cache[RowOf(cache, k)].t > OC_TTL_MS THEN None
    ELSE Some(cache[RowOf(cache, k)])

\* ocGet(key), the cache it leaves behind: an expired row is deleted
AfterOcGet(cache, k, t) ==
    IF RowOf(cache, k) # 0 /\ t - cache[RowOf(cache, k)].t > OC_TTL_MS
    THEN MapDelete(cache, k)
    ELSE cache

\* the key of the newest entry
NewestKey(cache) ==
    cache[CHOOSE i \in 1..Len(cache) :
              \A j \in 1..Len(cache) : cache[j].t <= cache[i].t].k

\* the loop of ocSet: the first entry, in insertion order, of the smallest t
OldestKey(cache) ==
    cache[CHOOSE i \in 1..Len(cache) :
              /\ \A j \in 1..Len(cache) : cache[i].t <= cache[j].t
              /\ \A j \in 1..(i - 1) : cache[j].t > cache[i].t].k

\* ocSet(key, val) at time t
ocSet(cache, k, t) ==
    MapSet(IF Len(cache) >= OC_MAX_ENTRIES /\ cache # <<>>
           THEN MapDelete(cache, OldestKey(cache)) ELSE cache,
           k, t)

\* the wikiCache test without the age: `if (hit)`
WikiHitAnyAge(cache, k, t) == RowOf(cache, k) # 0

\* hit && Date.now() - hit.t < WIKI_TTL_MS
WikiHit(cache, k, t) ==
    RowOf(cache, k) # 0 /\ t - cache[RowOf(cache, k)].t < WIKI_TTL_MS

\* time passes
Tick ==
    /\ now < MaxNow
    /\ now' = now + 1
    /\ UNCHANGED <<ocCache, wikiCache, upstream, pres>>
    /\ UNCHANGED <<geoVars, tipVars, cliVars, kin, kpc, kout, addrVars, usgsVars>>

\* the fetch a handler is awaiting
Fetch(op, k) == [op |-> op, k |-> k]

\* the traffic of a behaviour goes to one of the two proxies, which share
\* nothing but the clock
Serving(op) == pres.op \in {"none", op}

\* app.get('/api/opencage'), up to `await fetch` or the first response
OpenCageRequest(k) ==
    /\ Serving("opencage")
    /\ BagCardinality(upstream) < MaxInFlight
    /\ IF ~serverHasKey
       THEN /\ pres' = ProxyStep("opencage", k, "refused", 0)
            /\ UNCHANGED <<ocCache, upstream>>
       ELSE /\ ocCache' = AfterOcGet(ocCache, k, now)
            /\ IF IsSome(ocGet(ocCache, k, now))
               THEN /\ pres' = ProxyStep("opencage", k, "cache", 0)
                    /\ UNCHANGED upstream
               ELSE /\ pres' = ProxyStep("opencage", k, "fetch",
                                         IF RowOf(ocCache, k) # 0 THEN k ELSE 0)
                    /\ upstream' = upstream (+) SetToBag({Fetch("opencage", k)})
    /\ UNCHANGED <<now, wikiCache>>
    /\ UNCHANGED <<geoVars, tipVars, cliVars, kin, kpc, kout, addrVars, usgsVars>>

\* ... from the answer of the upstream on: an answer of any status is cached
\* and passed on; a rejected fetch is answered 502
OpenCageSettles(u, ok) ==
    /\ BagIn(u, upstream) /\ u.op = "opencage"
    /\ upstream' = upstream (-) SetToBag({u})
    /\ IF ok
       THEN /\ ocCache' = ocSet(ocCache, u.k, now)
            /\ pres' = ProxyStep("opencage", u.k, "stored",
                                 IF Len(ocCache) >= OC_MAX_ENTRIES
                                 THEN OldestKey(ocCache) ELSE 0)
       ELSE /\ pres' = ProxyStep("opencage", u.k, "passed", 0)
            /\ UNCHANGED ocCache
    /\ UNCHANGED <<now, wikiCache>>
    /\ UNCHANGED <<geoVars, tipVars, cliVars, kin, kpc, kout, addrVars, usgsVars>>

\* wikipediaNearbyHandler, up to `await fetch` or the first response
WikiRequest(k, finite) ==
    /\ Serving("wiki")
    /\ BagCardinality(upstream) < MaxInFlight
    /\ IF ~finite
       THEN /\ pres' = ProxyStep("wiki", k, "refused", 0)
            /\ UNCHANGED upstream
       ELSE IF WikiHit(wikiCache, k, now)
       THEN /\ pres' = ProxyStep("wiki", k, "cache", 0)
            /\ UNCHANGED upstream
       ELSE /\ pres' = ProxyStep("wiki", k, "fetch", 0)
            /\ upstream' = upstream (+) SetToBag({Fetch("wiki", k)})
    /\ UNCHANGED <<now, ocCache, wikiCache>>
    /\ UNCHANGED <<geoVars, tipVars, cliVars, kin, kpc, kout, addrVars, usgsVars>>

\* ... from the answer of the upstream on: rows are cached and sent; an answer
\* with j.error is answered 502 and a rejected fetch 500, neither cached
WikiSettles(u, rows) ==
    /\ BagIn(u, upstream) /\ u.op = "wiki"
    /\ upstream' = upstream (-) SetToBag({u})
    /\ IF rows
       THEN /\ wikiCache' = MapSet(wikiCache, u.k, now)
            /\ pres' = ProxyStep("wiki", u.k, "stored", 0)
       ELSE /\ pres' = ProxyStep("wiki", u.k, "passed", 0)
            /\ UNCHANGED wikiCache
    /\ UNCHANGED <<now, ocCache>>
    /\ UNCHANGED <<geoVars, tipVars, cliVars, kin, kpc, kout, addrVars, usgsVars>>

-----------------------------------------------------------------------------
(* Client: pLimitAll and loadUSGSGages (unnamed/part_002, lines 25-47 and   *)
(* 1016-1108)                                                               *)

\* bounds of the model.  loadUSGSGages calls pLimitAll(6, ...); the model
\* keeps one site more than the limit.
UsgsLimit == 2      \* the limit loadUSGSGages passes to pLimitAll
MaxLoads == 3       \* calls of loadUSGSGages in one behaviour
MaxLimit == 2       \* largest limit pLimitAll is called with on its own
MaxItems == 3       \* longest item list pLimitAll is called with on its own

Sites == 1..(UsgsLimit + 1)

\* a worker of pLimitAll: awaiting the handler of items[at] ("pending"), out
\* of its loop ("end"), or rejected because a handler threw ("dead")
Worker(st, at) == [st |-> st, at |-> at]

\* a call of loadUSGSGages (handler "usgs") or of pLimitAll with a handler of
\* the caller ("echo"): where it is suspended, signal.aborted, and the locals
\* of pLimitAll
Load(pc, handler, limit, items) ==
    [pc |-> pc, handler |-> handler, limit |-> limit, items |-> items,
     aborted |-> FALSE, i |-> 0, ret |-> <<>>, wk |-> <<>>, calls |-> <<>>]

\* the synchronous part of handler(items[idx], idx), up to its first await:
\* whether it returned without awaiting anything pending, whether it threw,
\* its value, and the marker layer it leaves.  The handler of loadUSGSGages
\* returns at once for a site with a fresh ivCache row, after adding the marker
\* unless the reading is older than the cutoff; else it awaits fetch(ivUrl),
\* which rejects at once when the signal of the load is aborted already.
\* The "echo" handler returns <<item, idx>> at once for item "s", throws for
\* "x" and awaits a pending promise for "a".
CallHandler(ld, lay, g, idx, cache) ==
    LET item == ld.items[idx + 1] IN
    IF ld.handler = "usgs"
    THEN IF item \in DOMAIN cache
         THEN [sync |-> TRUE, threw |-> FALSE, v |-> <<Undefined>>,
               layer |-> IF cache[item] = "recent"
                         THEN lay \cup {[site |-> item, g |-> g]} ELSE lay]
         ELSE [sync |-> ld.aborted, threw |-> FALSE, v |-> <<Undefined>>, layer |-> lay]
    ELSE [sync |-> item # "a", threw |-> item = "x", v |-> <<item, idx>>,
          layer |-> lay]

\* the body of the while loop entered by worker w: const idx = i++, the call
\* of the handler, and the await; a handler that returned at once leaves its
\* continuation `m` on the microtask queue
Take(ld, lay, mq, g, w, cache) ==
    LET h == CallHandler(ld, lay, g, ld.i, cache)
    IN  [ld |-> [ld EXCEPT !.i = ld.i + 1,
                           !.calls = Append(ld.calls, ld.i),
                           !.wk[w] = Worker("pending", ld.i)],
         layer |-> h.layer,
         mq |-> IF h.sync
                THEN Append(mq, [w |-> w, idx |-> ld.i, v |-> h.v, threw |-> h.threw])
                ELSE mq]

\* the microtask queue runs empty: each continuation stores the value at
\* ret[idx] and goes round the loop (or leaves it), or rejects its worker
RECURSIVE Drain(_, _, _, _, _)
Drain(ld, lay, mq, g, cache) ==
    IF mq = <<>> THEN [ld |-> ld, layer |-> lay]
    ELSE LET m == Head(mq) IN
         IF m.threw
         THEN Drain([ld EXCEPT !.wk[m.w] = Worker("dead", m.idx)], lay, Tail(mq), g, cache)
         ELSE LET ld1 == [ld EXCEPT !.ret = (m.idx :> m.v) @@ ld.ret] IN
              IF ld1.i < Len(ld1.items)
              THEN LET t == Take(ld1, lay, Tail(mq), g, m.w, cache)
                   IN  Drain(t.ld, t.layer, t.mq, g, cache)
              ELSE Drain([ld1 EXCEPT !.wk[m.w] = Worker("end", m.idx)], lay, Tail(mq), g, cache)

\* new Array(Math.min(limit, items.length)).fill(0).map(async () => ...):
\* the workers w..k are created one after the other and each runs up to its
\* first await
RECURSIVE Spawn(_, _, _, _, _, _, _)
Spawn(ld, lay, mq, g, w, k, cache) ==
    IF w > k THEN [ld |-> ld, layer |-> lay, mq |-> mq]
    ELSE LET t == Take(ld, lay, mq, g, w, cache)
         IN  Spawn(t.ld, t.layer, t.mq, g, w + 1, k, cache)

\* a pLimitAll whose workers stop at the limit of items, not of the limit
WorkersUnlimited(limit, n) == n

\* Math.min(limit, items.length)
Workers(limit, n) == IF limit < n THEN limit ELSE n

\* await Promise.all(workers) has settled: no worker is pending
Settled(ld) == \A w \in 1..Len(ld.wk) : ld.wk[w].st # "pending"
Finish(ld) == IF Settled(ld) THEN [ld EXCEPT !.pc = "done"] ELSE ld

\* pLimitAll(limit, items, handler) is called by load g, and the task runs to
\* its end
pLimitAll(ld, lay, g, cache) ==
    LET k  == Workers(ld.limit, Len(ld.items))
        s0 == Spawn([ld EXCEPT !.pc = "pool",
                               !.wk = [w \in 1..k |-> Worker("end", -1)]],
                    lay, <<>>, g, 1, k, cache)
        d  == Drain(s0.ld, s0.layer, s0.mq, g, cache)
    IN  [ld |-> Finish(d.ld), layer |-> d.layer]

\* the promise worker w of load g awaits has settled with what `m` says, and
\* the task runs to its end
Resume(ld, lay, g, m, cache) ==
    LET d == Drain(ld, lay, <<m>>, g, cache)
    IN  [ld |-> Finish(d.ld), layer |-> d.layer]

\* usgsAbortController.abort(): the fetches load g awaits reject, and their
\* continuations run when the task that aborted them has run: fetch(siteUrl)
\* throws into the catch of loadUSGSGages, fetch(ivUrl).catch(() => null)
\* makes each handler return
Aborted(ld, lay, g, cache) ==
    IF ld.pc = "sites"
    THEN [ld |-> [ld EXCEPT !.pc = "done", !.aborted = TRUE], layer |-> lay]
    ELSE IF ld.pc # "pool" THEN [ld |-> [ld EXCEPT !.aborted = TRUE], layer |-> lay]
    ELSE LET pend == SelectSeq([w \in 1..Len(ld.wk) |-> w],
                               LAMBDA w : ld.wk[w].st = "pending")
             d    == Drain([ld EXCEPT !.aborted = TRUE], lay,
                           [n \in 1..Len(pend) |->
                               [w |-> pend[n], idx |-> ld.wk[pend[n]].at,
                                v |-> <<Undefined>>, threw |-> FALSE]],
                           g, cache)
         IN  [ld |-> Finish(d.ld), layer |-> d.layer]

\* loadUSGSGages() is called (from the debounced moveend handler, a task of
\* its own): the previous load is aborted, the layer cleared, and fetch(siteUrl)
\* awaited unless the zoom is below 7
loadUSGSGages(zoomed) ==
    /\ gen < MaxLoads
    /\ gen' = gen + 1
    /\ UNCHANGED ivCache
    /\ LET r == IF gen = 0 THEN [ld |-> <<>>, layer |-> {}]
                ELSE Aborted(loads[gen], {}, gen, ivCache)
       IN  /\ layer' = r.layer
           /\ loads' = Append(IF gen = 0 THEN loads ELSE [loads EXCEPT ![gen] = r.ld],
                              Load(IF zoomed THEN "sites" ELSE "done",
                                   "usgs", UsgsLimit, <<>>))
    /\ UNCHANGED <<geoVars, tipVars, cliVars, kin, kpc, kout, addrVars, cacheVars>>

\* the site lists the USGS answers with
SiteLists == {<<>>} \cup {[j \in 1..n |-> j] : n \in 1..(UsgsLimit + 1)}

\* fetch(siteUrl) of load g settles: with the sites of the viewport, or not
\* (rejected, !res.ok, no lines)
SitesSettle(g, ok, sites) ==
    /\ g \in 1..Len(loads) /\ loads[g].pc = "sites"
    /\ UNCHANGED <<gen, ivCache>>
    /\ IF ~ok
       THEN /\ loads' = [loads EXCEPT ![g].pc = "done"]
            /\ UNCHANGED layer
       ELSE LET r == pLimitAll([loads[g] EXCEPT !.items = sites], layer, g, ivCache)
            IN  /\ loads' = [loads EXCEPT ![g] = r.ld]
                /\ layer' = r.layer
    /\ UNCHANGED <<geoVars, tipVars, cliVars, kin, kpc, kout, addrVars, cacheVars>>

\* fetch(ivUrl) of worker w of load g settles (and ivRes.json() with it):
\* with a reading, "recent" or "old" (before the cutoff), or not ("fail":
\* rejected, !ok, no values)
IvSettles(g, w, kind) ==
    /\ g \in 1..Len(loads) /\ loads[g].pc = "pool" /\ loads[g].handler = "usgs"
    /\ w \in 1..Len(loads[g].wk) /\ loads[g].wk[w].st = "pending"
    /\ LET idx  == loads[g].wk[w].at
           site == loads[g].items[idx + 1]
           lay  == IF kind = "recent" THEN layer \cup {[site |-> site, g |-> g]}
                   ELSE layer
           cache == IF kind = "fail" THEN ivCache ELSE (site :> kind) @@ ivCache
           r    == Resume(loads[g], lay, g,
                          [w |-> w, idx |-> idx, v |-> <<Undefined>>, threw |-> FALSE],
                          cache)
       IN  /\ ivCache' = cache
           /\ loads' = [loads EXCEPT ![g] = r.ld]
           /\ layer' = r.layer
    /\ UNCHANGED gen
    /\ UNCHANGED <<geoVars, tipVars, cliVars, kin, kpc, kout, addrVars, cacheVars>>

\* five minutes after it was stored, the ivCache row of a site is fresh no more
IvExpires(site) ==
    /\ site \in DOMAIN ivCache
    /\ ivCache' = [x \in DOMAIN ivCache \ {site} |-> ivCache[x]]
    /\ UNCHANGED <<gen, loads, layer>>
    /\ UNCHANGED <<geoVars, tipVars, cliVars, kin, kpc, kout, addrVars, cacheVars>>

\* pLimitAll on its own: the caller calls it with the items and the limit of
\* the load
PoolCall ==
    /\ loads # <<>> /\ loads[1].pc = "call"
    /\ ivCache' = ivCache
    /\ LET r == pLimitAll(loads[1], layer, 1, ivCache)
       IN  /\ loads' = [loads EXCEPT ![1] = r.ld]
           /\ layer' = r.layer
    /\ UNCHANGED gen
    /\ UNCHANGED <<geoVars, tipVars, cliVars, kin, kpc, kout, addrVars, cacheVars>>

\* the promise the "echo" handler of worker w awaits settles: the handler
\* returns <<item, idx>>, or throws
HandlerSettles(w, ok) ==
    /\ loads # <<>> /\ loads[1].pc = "pool" /\ loads[1].handler = "echo"
    /\ w \in 1..Len(loads[1].wk) /\ loads[1].wk[w].st = "pending"
    /\ ivCache' = ivCache
    /\ LET idx == loads[1].wk[w].at
           r   == Resume(loads[1], layer, 1,
                         [w |-> w, idx |-> idx,
                          v |-> <<loads[1].items[idx + 1], idx>>, threw |-> ~ok],
                         ivCache)
       IN  /\ loads' = [loads EXCEPT ![1] = r.ld]
           /\ layer' = r.layer
    /\ UNCHANGED gen
    /\ UNCHANGED <<geoVars, tipVars, cliVars, kin, kpc, kout, addrVars, cacheVars>>

-----------------------------------------------------------------------------
(* tipKeyFrom on its own                                                    *)

KeyStrings  == { <<>>, <<"a", "b">>, <<":">>, <<"u", "s", "g", "s", ":", "7">>,
                 <<"c", "u", "s", "t", "o", "m", ":", "0">> }
SiteStrings == { <<>>, <<"7">>, <<"0", "7", "0", "5", "5", "6", "6", "0">> }
MarkerIndexes == {0, 1, 12}
KeyInputs ==
    [key : {None} \cup {Some(k) : k \in KeyStrings},
     siteId : {None} \cup {Some(x) : x \in SiteStrings},
     markerIndex : {None} \cup {Some(n) : n \in MarkerIndexes}]

\* a handler is handed the object `obj`
KeyCall(obj) ==
    /\ kpc = "ret"
    /\ kin' = obj
    /\ kpc' = "call"
    /\ UNCHANGED kout
    /\ UNCHANGED <<geoVars, tipVars, cliVars, addrVars, auxVars>>

\* const key = tipKeyFrom(obj)
KeyReturn ==
    /\ kpc = "call"
    /\ kout' = tipKeyFrom(kin)
    /\ kpc' = "ret"
    /\ UNCHANGED kin
    /\ UNCHANGED <<geoVars, tipVars, cliVars, addrVars, auxVars>>

\* the strings splitUSAddress is applied to: street, city, state and ZIP parts
\* with and without the commas between them, and a trailing country
StreetParts == { <<>>, <<"123", "Union", "Star", "Rd">>, <<"Main", "St">>,
                 <<"123", "La", "Rd">> }
CityParts == { <<>>, <<"West", "Fork">> }
CommaParts == { <<>>, <<",">> }
StateParts == { <<>>, <<"AR">>, <<"ar">> }
ZipParts == { <<>>, <<"72774">>, <<"72774-1234">> }
TailParts == { <<>>, <<"USA">> }
WellFormed(s) ==
    /\ s # <<>> => Head(s) # ","
    /\ \A i \in 1..(Len(s) - 1) : ~(s[i] = "," /\ s[i + 1] = ",")
Addresses ==
    {s \in {str \o c1 \o cty \o c2 \o sta \o zp \o tl :
               str \in StreetParts, c1 \in CommaParts, cty \in CityParts,
               c2 \in CommaParts, sta \in StateParts, zp \in ZipParts,
               tl \in TailParts} : WellFormed(s)}

\* the caller is about to pass the string `s`
SplitCall(s) ==
    /\ apc = "ret"
    /\ ain' = s
    /\ apc' = "call"
    /\ UNCHANGED aout
    /\ UNCHANGED <<geoVars, tipVars, cliVars, kin, kpc, kout, auxVars>>

\* const parts = splitUSAddress(s)
SplitReturn ==
    /\ apc = "call"
    /\ aout' = splitUSAddress(ain)
    /\ apc' = "ret"
    /\ UNCHANGED ain
    /\ UNCHANGED <<geoVars, tipVars, cliVars, kin, kpc, kout, auxVars>>

-----------------------------------------------------------------------------
(* Specifications                                                           *)

NoInput == [key |-> None, siteId |-> None, markerIndex |-> None]

GeoInit ==
    /\ gpc = "idle" /\ query = <<>> /\ us = FALSE /\ q = <<>>
    /\ uniq = <<>> /\ ci = 0 /\ inflight = {} /\ calls = <<>> /\ resps = <<>>
    /\ result = <<>> /\ threw = FALSE /\ lastKind = "none" /\ ocSeen = "unread"
    /\ opencageEnabled = FALSE /\ configPc = "pending"
FilesOk == tipsFile = "sound" /\ markersFile = "sound"
TipInit == tips = <<>> /\ markers = <<>> /\ nextId = 0 /\ resp = NoResponse /\ FilesOk
AddrInit == ain = <<>> /\ apc = "ret" /\ aout = splitUSAddress(<<>>)
CacheInit ==
    /\ now = 0 /\ ocCache = <<>> /\ wikiCache = <<>> /\ upstream = EmptyBag
    /\ pres = NoProxyStep
UsgsInit == gen = 0 /\ loads = <<>> /\ layer = {} /\ ivCache = <<>>
AuxInit == CacheInit /\ UsgsInit
KeyInit == kin = NoInput /\ kpc = "call" /\ kout = NullKey /\ AddrInit /\ AuxInit
SugInit ==
    /\ spc = "idle" /\ scalls = <<>> /\ sresp = NoSuggestion
    /\ sresult = <<>> /\ sthrew = FALSE
CliInit == listing = <<>> /\ clicked = NoClick /\ SugInit

\* the server: tips.json starts as {} (ensureFile)
Init ==
    /\ GeoInit /\ photon = TRUE /\ serverHasKey = FALSE
    /\ TipInit
    /\ KeyInit
    /\ CliInit

Next ==
    \/ \E tgt \in Targets, v \in Uids : GetTips(tgt, v)
    \/ \E tgt \in Targets, text \in {"", "t1"}, u \in Authors,
          st \in {Undefined, "draft"} : PostTip(tgt, text, u, Undefined, st)
    \/ \E r \in PutRequests : PutTip(r[1], r[2][1], r[2][2], r[3][1], r[3][2], r[4])
    \/ \E r \in PublishRequests : PublishTip(r[1], r[2][1], r[2][2], r[3])
    \/ \E tgt \in Targets, ix \in Indexes : DeleteTip(tgt, ix)
    \/ Respond

Spec == Init /\ [][Next]_vars

\* the server with one marker: the tip handlers take the requests a client
\* sends for the marker at index 0
NextStore ==
    \/ \E v \in {Undefined, "A"} : GetTips(MarkerTarget, v)
    \/ \E u \in Authors, st \in {Undefined, "draft"} :
          PostTip(MarkerTarget, "t1", u, Undefined, st)
    \/ \E ad \in Addrs, up \in {<<"t2", None>>, <<Undefined, Some(Null)>>} :
          PutTip(MarkerTarget, ad[1], ad[2], up[1], up[2], Undefined)
    \/ \E ad \in Addrs, u \in {Undefined, "B"} : PublishTip(MarkerTarget, ad[1], ad[2], u)
    \/ \E ix \in Indexes : DeleteTip(MarkerTarget, ix)
    \/ GetMarkers
    \/ \E lat \in Coords, title \in {"", "m1"}, u \in Authors :
          markers = <<>> /\ PostMarker(lat, Some(36), title, u)
    \/ \E ix \in MarkerIndexParams, lat \in Coords, title \in {"", "m2"} :
          PutMarker(ix, lat, Some(36), title)
    \/ \E ix \in MarkerIndexParams : DeleteMarker(ix)
    \/ Respond

SpecStore == Init /\ [][NextStore]_vars

\* the markers routes alone, with indexes before the start and past the end of
\* the list, and titles that tell the markers apart
WideMarkerIndexes == {None} \cup {Some(i) : i \in (-1)..MaxMarkers}

NextMarkers ==
    \/ GetMarkers
    \/ \E lat \in Coords, title \in {"", "m1", "m2"}, u \in Authors :
          PostMarker(lat, Some(36), title, u)
    \/ \E ix \in WideMarkerIndexes, title \in {"", "m3"} :
          PutMarker(ix, Some(36), Some(36), title)
    \/ \E ix \in WideMarkerIndexes : DeleteMarker(ix)
    \/ Respond

SpecMarkers == Init /\ [][NextMarkers]_vars

\* a client posts a tip from the panel of the marker now at index j; the text
\* of the tip is the title of that marker
PostTipFor(j) ==
    /\ j < Len(markers)
    /\ PostTip(CustomTarget(j), markers[j + 1].title, "A", Undefined, Undefined)

\* markers with their tips: markers are added, edited and deleted while tips
\* are posted and listed for the marker at each index
NextPins ==
    \/ \E title \in {"m1", "m2"} : PostMarker(Some(36), Some(36), title, "A")
    \/ \E j \in 0..(MaxMarkers - 1) : PutMarker(Some(j), Some(36), Some(36), "m3")
    \/ \E j \in 0..(MaxMarkers - 1) : DeleteMarker(Some(j))
    \/ GetMarkers
    \/ \E j \in 0..(MaxMarkers - 1) : PostTipFor(j)
    \/ \E j \in 0..(MaxMarkers - 1) : GetTips(CustomTarget(j), "A")
    \/ Respond

SpecPins == Init /\ [][NextPins]_vars

\* the server over data files that get damaged: every route, the restart
\* and the startup migration
NextHeal ==
    \/ DamageTips
    \/ DamageMarkers
    \/ Restart
    \/ migrateTipKeysOnce
    \/ GetTips(MarkerTarget, "A")
    \/ PostTip(MarkerTarget, "t1", "A", Undefined, Undefined)
    \/ \E ad \in {<<Some(1), None>>, <<None, Some(0)>>} :
          PutTip(MarkerTarget, ad[1], ad[2], "t2", None, Undefined)
    \/ \E ad \in {<<Some(1), None>>, <<None, Some(0)>>} :
          PublishTip(MarkerTarget, ad[1], ad[2], "A")
    \/ DeleteTip(MarkerTarget, Some(0))
    \/ GetMarkers
    \/ PostMarker(Some(36), Some(36), "m1", "A")
    \/ PutMarker(Some(0), Some(36), Some(36), "m2")
    \/ DeleteMarker(Some(0))
    \/ Respond

SpecHeal == Init /\ [][NextHeal]_vars

\* the tips routes addressed in every way: by id, by index, by both, by
\* neither; with ids no tip carries, indexes before the start and past the
\* end of the group, and a key no tip was ever posted under
OtherTarget == [key |-> None, siteId |-> Some(<<"7">>), markerIndex |-> None]
WideIndexes == {None} \cup {Some(i) : i \in (-1)..MaxTips}
WideAddrs   == ({None} \cup {Some(i) : i \in 1..MaxTips}) \X WideIndexes

NextLookup ==
    \/ \E v \in {Undefined, "A"} : GetTips(MarkerTarget, v)
    \/ \E st \in {Undefined, "draft"} : PostTip(MarkerTarget, "t1", "A", Undefined, st)
    \/ \E tgt \in {MarkerTarget, OtherTarget}, ad \in WideAddrs :
          PutTip(tgt, ad[1], ad[2], "t2", None, Undefined)
    \/ \E tgt \in {MarkerTarget, OtherTarget}, ad \in WideAddrs, u \in {Undefined, "B"} :
          PublishTip(tgt, ad[1], ad[2], u)
    \/ \E tgt \in {MarkerTarget, OtherTarget}, ix \in WideIndexes : DeleteTip(tgt, ix)
    \/ Respond

SpecLookup == Init /\ [][NextLookup]_vars

\* the server started over a tips.json written by an earlier version: up to
\* MaxLegacyKeys keys, un-prefixed (digits of several lengths, letters) or
\* prefixed; the tip under the n-th key of LegacyKeys has id 100 + n; a value
\* that is no array is found under un-prefixed keys only
MaxLegacyKeys == 2
Ones(n) == [i \in 1..n |-> "1"]
LegacyKeys ==
    << <<"0">>, Ones(6), Ones(7), Ones(15), Ones(16), <<"a", "b">>,
       <<"c", "u", "s", "t", "o", "m", ":", "0">>,
       <<"u", "s", "g", "s", ":">> \o Ones(7) >>
LegacyTip(n) == [id |-> 100 + n, text |-> "t0", userId |-> Null,
                 photoUrl |-> Null, status |-> "published"]
LegacyValues(n) ==
    IF Includes(LegacyKeys[n], ":") THEN {<<LegacyTip(n)>>}
    ELSE {<<LegacyTip(n)>>, NotArray}
LegacyStores ==
    UNION {{[k \in {LegacyKeys[n] : n \in ns} |->
                v[CHOOSE n \in ns : LegacyKeys[n] = k]] :
              v \in {f \in [ns -> {<<LegacyTip(n)>> : n \in ns} \cup {NotArray}] :
                        \A n \in ns : f[n] \in LegacyValues(n)}} :
           ns \in {x \in SUBSET (1..Len(LegacyKeys)) : Cardinality(x) <= MaxLegacyKeys}}

InitMigrate ==
    /\ GeoInit /\ photon = TRUE /\ serverHasKey = FALSE
    /\ tips \in LegacyStores /\ markers = <<>> /\ nextId = 0 /\ resp = Booting
    /\ FilesOk
    /\ KeyInit
    /\ CliInit

NextMigrate ==
    \/ migrateTipKeysOnce
    \/ Restart
    \/ GetTips(MarkerTarget, Undefined)
    \/ PostTip(MarkerTarget, "t1", "A", Undefined, Undefined)
    \/ PutTip(MarkerTarget, None, Some(0), "t2", None, Undefined)
    \/ PublishTip(MarkerTarget, None, Some(0), Undefined)
    \/ DeleteTip(MarkerTarget, Some(0))
    \/ markers = <<>> /\ PostMarker(Some(36), Some(36), "m1", Undefined)
    \/ DeleteMarker(Some(0))
    \/ Respond

SpecMigrate == InitMigrate /\ [][NextMigrate]_vars

\* the other client deletes the tip at position i of the group as it is now
DeleteByOther(i) ==
    /\ i < Len(Group(tips, tipKeyFrom(MarkerTarget)))
    /\ DeleteTip(MarkerTarget, Some(i))

\* two clients on the tips of one marker: the panel of user A, and another
\* client (B) that posts published tips and deletes the tip at a position of
\* the group as it is now
NextRace ==
    \/ renderInlineTips
    \/ \E i \in 0..(MaxTips - 1) : ClickDelete(i)
    \/ \E i \in 0..(MaxTips - 1) : SubmitEdit(i)
    \/ \E i \in 0..(MaxTips - 1) : PutByIndex(i)
    \/ PostTip(MarkerTarget, "t1", "B", Undefined, Undefined)
    \/ \E i \in 0..(MaxTips - 1) : DeleteByOther(i)
    \/ Respond

SpecRace == Init /\ [][NextRace]_vars

\* another client posts a tip, draft or published, while the panel of A shows
\* no item: nothing changes the group between a listing with items and the
\* click on one of them
PostBeforeListing(u, st) ==
    /\ listing = <<>>
    /\ PostTip(MarkerTarget, "t1", u, Undefined, st)

\* the panel of user A over a group that holds tips and drafts of A and B and
\* that only the panel changes once it shows items
NextPanel ==
    \/ renderInlineTips
    \/ \E i \in 0..(MaxTips - 1) : ClickDelete(i)
    \/ \E u \in {"A", "B"}, st \in {Undefined, "draft"} : PostBeforeListing(u, st)
    \/ Respond

SpecPanel == Init /\ [][NextPanel]_vars

\* the client: one geocode call, the page with or without Photon, the server
\* with or without an OpenCage key
InitGeo ==
    /\ GeoInit /\ photon \in BOOLEAN /\ serverHasKey \in BOOLEAN
    /\ TipInit
    /\ KeyInit
    /\ CliInit

NextGeo ==
    \/ \E qry \in Queries : Geocode(qry)
    \/ \E kind \in {"empty", "reject", "nonarray", "nonjson", "badshape"} :
          Settle(kind, <<>>)
    \/ \E raw \in HitLists : Settle("hits", raw)
    \/ \E ok \in BOOLEAN : ConfigSettles(ok)

SpecGeo == InitGeo /\ [][NextGeo]_vars

\* suggest called again and again, on a page with or without the Photon adapter
InitSuggest ==
    /\ GeoInit /\ photon \in BOOLEAN /\ serverHasKey = FALSE
    /\ TipInit
    /\ KeyInit
    /\ CliInit

NextSuggest ==
    \/ \E qry \in Queries : Suggest(qry)
    \/ \E raw \in HitLists : SuggestSettles("hits", raw)
    \/ \E kind \in {"empty", "reject"} : SuggestSettles(kind, <<>>)
    \/ SuggestSettles("nonarray", NonArrayValue)

SpecSuggest == InitSuggest /\ [][NextSuggest]_vars

\* tipKeyFrom applied to every input
InitKey ==
    /\ GeoInit /\ photon = TRUE /\ serverHasKey = FALSE
    /\ TipInit
    /\ KeyInit
    /\ CliInit

NextKey ==
    \/ \E obj \in KeyInputs : KeyCall(obj)
    \/ KeyReturn

SpecKey == InitKey /\ [][NextKey]_vars

\* splitUSAddress alone, applied to one string after another
NextSplit ==
    \/ \E s \in Addresses : SplitCall(s)
    \/ SplitReturn

SpecSplit == InitKey /\ [][NextSplit]_vars

\* the caching proxies of a server with or without an OpenCage key
InitCache ==
    /\ GeoInit /\ photon = TRUE /\ serverHasKey \in BOOLEAN
    /\ TipInit
    /\ KeyInit
    /\ CliInit

NextCache ==
    \/ Tick
    \/ \E k \in OcKeys : OpenCageRequest(k)
    \/ \E u \in BagToSet(upstream), ok \in BOOLEAN : OpenCageSettles(u, ok)
    \/ \E k \in WikiKeys, finite \in BOOLEAN : WikiRequest(k, finite)
    \/ \E u \in BagToSet(upstream), rows \in BOOLEAN : WikiSettles(u, rows)

SpecCache == InitCache /\ [][NextCache]_vars

\* the map page: loads of the USGS gages, one superseding the other
NextUsgs ==
    \/ \E zoomed \in BOOLEAN : loadUSGSGages(zoomed)
    \/ \E g \in 1..MaxLoads, sites \in SiteLists : SitesSettle(g, TRUE, sites)
    \/ \E g \in 1..MaxLoads : SitesSettle(g, FALSE, <<>>)
    \/ \E g \in 1..MaxLoads, w \in 1..UsgsLimit, kind \in {"recent", "old", "fail"} :
          IvSettles(g, w, kind)
    \/ \E site \in Sites : IvExpires(site)

SpecUsgs == Init /\ [][NextUsgs]_vars

\* pLimitAll alone, called once with a limit, a list of items and the "echo"
\* handler
ItemLists == UNION {[1..n -> {"s", "a", "x"}] : n \in 0..MaxItems}
InitPool ==
    /\ GeoInit /\ photon = TRUE /\ serverHasKey = FALSE
    /\ TipInit
    /\ kin = NoInput /\ kpc = "call" /\ kout = NullKey /\ AddrInit
    /\ CacheInit
    /\ gen = 1 /\ layer = {} /\ ivCache = <<>>
    /\ \E limit \in 1..MaxLimit, items \in ItemLists :
          loads = <<Load("call", "echo", limit, items)>>
    /\ CliInit

NextPool ==
    \/ PoolCall
    \/ \E w \in 1..MaxLimit, ok \in BOOLEAN : HandlerSettles(w, ok)

SpecPool == InitPool /\ [][NextPool]_vars

-----------------------------------------------------------------------------
(* Properties of smartGeocoder.geocode, checked under SpecGeo               *)

\* the place of a request in the documented chain: bounded Nominatim,
\* unbounded Nominatim, Photon, Census one-line, Census structured parts,
\* ArcGIS, OpenCage
Rank(c) ==
    CASE c.provider = "nominatim" /\ c.bounded  -> 1
      [] c.provider = "nominatim" /\ ~c.bounded -> 2
      [] c.provider = "photon"                  -> 3
      [] c.provider = "census_oneline"          -> 4
      [] c.provider = "census_address"          -> 5
      [] c.provider = "arcgis"                  -> 6
      [] c.provider = "opencage"                -> 7
      [] OTHER                                  -> 0
Attempted(r) == \E i \in 1..Len(calls) : Rank(calls[i]) = r
AttemptedWith(bm) ==
    \E i \in 1..Len(calls) : Rank(calls[i]) = 5 /\ calls[i].benchmark = bm
AllEmpty == \A i \in 1..Len(resps) : resps[i] = <<>>
Resolved == gpc = "done" /\ ~threw

\* C1: short-circuit.  As soon as a request delivers a non-empty result set,
\* geocode has returned exactly that set (same elements, same order), that
\* request is the last one the call ever issued and nothing is in flight.
ShortCircuit ==
    \A i \in 1..Len(resps) :
        resps[i] # <<>> =>
            /\ Resolved
            /\ result = resps[i]
            /\ i = Len(calls)
            /\ inflight = {}

\* Photon, the third stage, answered with two different matches after both
\* Nominatim stages came back empty, and geocode returned them
ShortCircuitWitness ==
    /\ Resolved /\ Len(resps) = 3
    /\ Len(result) = 2 /\ result[1].name # result[2].name
    /\ calls[3].provider = "photon"

\* C2: geocode never rejects.  A request that fails (rejected promise, body
\* that is no JSON, malformed matches) counts as empty: the chain issues its
\* next request or, at the end of the chain, geocode returns the empty
\* sequence; it returns the empty sequence exactly when nothing was delivered.
NeverThrows ==
    /\ ~threw
    /\ gpc = "done" => (result = <<>> <=> AllEmpty)
    /\ (lastKind \in {"reject", "nonarray", "nonjson", "badshape"} /\ gpc # "done")
          => (Len(calls) = Len(resps) + 1 /\ inflight # {})

\* every request of a US query failed, the last one (OpenCage) with malformed
\* matches, and geocode resolved with the empty sequence
NeverThrowsWitness ==
    /\ Resolved /\ result = <<>> /\ lastKind = "badshape"
    /\ Attempted(5) /\ Attempted(7)

\* C3: stage order.  The requests of one call follow the documented order; a
\* provider stage is never issued twice (the structured Census stage repeats
\* only with another benchmark or another address combination, Current before
\* Census2020); a request is issued only after every earlier one came back
\* empty or failed.
StageOrder ==
    /\ \A i, j \in 1..Len(calls) :
          i < j =>
            /\ Rank(calls[i]) >= 1
            /\ Rank(calls[i]) <= Rank(calls[j])
            /\ Rank(calls[i]) = Rank(calls[j]) =>
                  /\ Rank(calls[i]) = 5
                  /\ \/ /\ calls[i].benchmark = "Public_AR_Current"
                        /\ calls[j].benchmark = "Public_AR_Census2020"
                     \/ /\ calls[i].benchmark = calls[j].benchmark
                        /\ calls[i].combo < calls[j].combo
    /\ \A i, j \in 1..Len(calls) : i < j => (i <= Len(resps) /\ resps[i] = <<>>)

\* a call that went through all seven stages
StageOrderWitness == Resolved /\ \A r \in 1..7 : Attempted(r)

\* C4: sequential execution.  At most one provider request is in flight, and
\* a request is issued only when every earlier one has settled; this holds
\* inside the structured Census stage too.
Sequential ==
    /\ Cardinality(inflight) <= 1
    /\ Len(resps) <= Len(calls) /\ Len(calls) <= Len(resps) + 1
    /\ inflight = {} <=> Len(calls) = Len(resps)

\* the third address combination of the structured Census stage is in flight
SequentialWitness == gpc = "r5" /\ ci = 3 /\ Cardinality(inflight) = 1

\* C5 as stated: geocode returns the empty sequence only after every one of
\* the seven stages has been attempted and came back empty or failed.
ExhaustsEveryStage ==
    (Resolved /\ result = <<>>) => (AllEmpty /\ \A r \in 1..7 : Attempted(r))

\* C5 as amended: geocode returns the empty sequence only after every stage
\* whose gate is open has been attempted and came back empty or failed: both
\* Nominatim stages and ArcGIS always, Photon iff the Photon adapter exists,
\* Census one-line iff the query is US-like, structured Census (with both
\* benchmarks) iff the query is US-like and splitUSAddress finds a street,
\* OpenCage iff OPENCAGE_ENABLED was set when the chain reached it.
ExhaustsOpenStages ==
    (Resolved /\ result = <<>>) =>
        /\ AllEmpty /\ Len(resps) = Len(calls) /\ inflight = {}
        /\ Attempted(1) /\ Attempted(2) /\ Attempted(6)
        /\ Attempted(3) <=> photon
        /\ Attempted(4) <=> isLikelyUS(query)
        /\ Attempted(5) <=> (isLikelyUS(query) /\ splitUSAddress(q).street # <<>>)
        /\ Attempted(5) => (AttemptedWith("Public_AR_Current")
                            /\ AttemptedWith("Public_AR_Census2020"))
        /\ ocSeen \in {"yes", "no"}
        /\ Attempted(7) <=> ocSeen = "yes"

\* a query that is not US-like, on a page without Photon and before the
\* OpenCage flag is set: three requests, all empty, and geocode returns []
ExhaustsOpenStagesWitness ==
    /\ Resolved /\ result = <<>> /\ ~us /\ ~photon /\ ocSeen = "no"
    /\ Len(calls) = 3

\* a query with a ZIP token, a state abbreviation as a whole word in any
\* letter case, or the token USA / the tokens United States
HasUSToken(qry) ==
    \/ \E i \in 1..Len(qry) : qry[i] \in Zip5Words \cup Zip9Words
    \/ \E i \in 1..Len(qry) : toUpperCase(qry[i]) \in STATE_ABBR
    \/ \E i \in 1..Len(qry) : toUpperCase(qry[i]) = "USA"
    \/ \E i \in 1..(Len(qry) - 1) :
          toUpperCase(qry[i]) = "UNITED" /\ toUpperCase(qry[i + 1]) = "STATES"

\* C26: isLikelyUS returns true for every query that contains a 5-digit ZIP
\* (optionally +4) as a whole token, a two-letter state abbreviation as a
\* whole word in any letter case, or the token USA / United States, and
\* false for every query that contains none of these.
LikelyUSIffToken ==
    gpc # "idle" => (us <=> HasUSToken(query))

\* the try block (1..8) a request belongs to
BlockOf(c) ==
    CASE c.provider = "nominatim" /\ c.bounded  -> 1
      [] c.provider = "nominatim" /\ ~c.bounded -> 2
      [] c.provider = "photon"                  -> 3
      [] c.provider = "census_oneline"          -> 4
      [] c.provider = "census_address" /\ c.benchmark = "Public_AR_Current"    -> 5
      [] c.provider = "census_address" /\ c.benchmark = "Public_AR_Census2020" -> 6
      [] c.provider = "arcgis"                  -> 7
      [] OTHER                                  -> 8
CensusBlocks == {4, 5, 6}
\* block b has issued a request
Issued(b) == \E i \in 1..Len(calls) : BlockOf(calls[i]) = b
\* every request of a block before b came back empty or failed
EarlierEmpty(b) ==
    \A i \in 1..Len(resps) : BlockOf(calls[i]) < b => resps[i] = <<>>
\* a Census request is issued for US-like queries only, and only after every
\* earlier request came back empty or failed
CensusOnlyUS ==
    \A i \in 1..Len(calls) :
        BlockOf(calls[i]) \in CensusBlocks =>
            /\ isLikelyUS(query)
            /\ \A j \in 1..(i - 1) : j <= Len(resps) /\ resps[j] = <<>>

\* C20 as stated: the Census one-line stage and both structured Census
\* stages are attempted if and only if isLikelyUS(query) is true and all
\* earlier stages were empty or failed; for a non-US query no Census request
\* is ever issued.
CensusIffUS ==
    /\ CensusOnlyUS
    /\ Resolved => \A b \in CensusBlocks :
                      Issued(b) <=> (isLikelyUS(query) /\ EarlierEmpty(b))

\* C20 as amended: the Census one-line stage is attempted if and only if
\* isLikelyUS(query) is true and all earlier stages were empty or failed;
\* each structured Census stage is attempted if and only if, in addition,
\* splitUSAddress finds a street in the normalized query; for a non-US query
\* no Census request is ever issued.
CensusIffUSWithStreet ==
    /\ CensusOnlyUS
    /\ Resolved =>
          /\ Issued(4) <=> (isLikelyUS(query) /\ EarlierEmpty(4))
          /\ \A b \in {5, 6} :
                Issued(b) <=> (/\ isLikelyUS(query) /\ EarlierEmpty(b)
                               /\ splitUSAddress(q).street # <<>>)

\* a US query with a street went through Nominatim, Photon, the Census
\* one-line stage and the structured stage with Public_AR_Current, all
\* empty, and the structured stage with Public_AR_Census2020 found it
CensusIffUSWithStreetWitness ==
    /\ Resolved /\ us /\ result # <<>> /\ result[1].stage = 6
    /\ Issued(3) /\ Issued(4) /\ Issued(5) /\ Issued(6)

\* the chain has come to the OpenCage block (the test at part_002 line 308)
ReachedLast == ocSeen # "unread"

\* C21 as stated: OpenCage gating.  For any geocode call that reaches the
\* last stage, whenever it is issued relative to the /api/config fetch, the
\* OpenCage stage is attempted if and only if the deployment has an OpenCage
\* key configured.
OpenCageIffKey ==
    ReachedLast => (Issued(8) <=> serverHasKey)

\* C21 as amended: the OpenCage stage is attempted only if the deployment has
\* an OpenCage key configured; a call that reaches the last stage attempts
\* it if and only if, by then, the /api/config fetch has delivered
\* opencageEnabled: true (that is: the key is configured and the answer has
\* arrived); a call that gets there earlier, or after a failed fetch, skips
\* OpenCage although the key is configured.
OpenCageGate ==
    /\ [](/\ Issued(8) => (serverHasKey /\ configPc = "settled" /\ opencageEnabled)
          /\ opencageEnabled => (serverHasKey /\ configPc = "settled")
          /\ ReachedLast => (Issued(8) <=> ocSeen = "yes"))
    /\ [][(~ReachedLast /\ ReachedLast') => (Issued(8)' <=> opencageEnabled)]_vars

\* the deployment has a key, /api/config has answered, and the chain went
\* through to OpenCage, which found the place
OpenCageGateWitness ==
    /\ Resolved /\ serverHasKey /\ configPc = "settled"
    /\ Issued(8) /\ result # <<>> /\ result[1].stage = 8

\* the requests block b has issued, in the order of issue
CallsOf(b) == SelectSeq(calls, LAMBDA c : BlockOf(c) = b)
\* the address as splitUSAddress parsed it
Parsed == splitUSAddress(q)
\* no ZIP was parsed and the parsed (city, state) is in the hint table
Hinted ==
    /\ Parsed.zip = ""
    /\ <<[i \in 1..Len(Parsed.city) |-> toUpperCase(Parsed.city[i])], Parsed.state>>
           \in ZIP_HINTS_KEYS
HintedZips ==
    ZIP_HINTS(<<[i \in 1..Len(Parsed.city) |-> toUpperCase(Parsed.city[i])], Parsed.state>>)
\* a structured stage is running: it queries its combinations from the first
\* on, one after the other, the address as parsed first and, for a hinted
\* address, each hinted ZIP with the city and then each without
CombinationsInOrder ==
    gpc \in {"r5", "r6"} =>
        /\ uniq # <<>> /\ uniq[1] = Parsed
        /\ Hinted =>
              uniq = <<Parsed>>
                     \o [i \in 1..Len(HintedZips) |-> [Parsed EXCEPT !.zip = HintedZips[i]]]
                     \o [i \in 1..Len(HintedZips) |->
                            [Parsed EXCEPT !.zip = HintedZips[i], !.city = <<>>]]
        /\ Len(CallsOf(PcStage(gpc))) = ci /\ ci <= Len(uniq)
        /\ \A i \in 1..ci : CallsOf(PcStage(gpc))[i].combo = i
        /\ \A i \in 1..Len(resps) : resps[i] = <<>>
\* the step that issues the first Public_AR_Census2020 query
Starts2020 == gpc = "r5" /\ gpc' = "r6"

\* C22 as stated: structured Census retries.  The structured stage first
\* queries the address as parsed; if no ZIP was parsed and the (city, state)
\* is hinted, it then queries each hinted ZIP with the city and then each
\* hinted ZIP without the city, stopping at the first query with matches;
\* Public_AR_Census2020 is queried only after every Public_AR_Current
\* combination yielded nothing, and with the same combinations.
CensusRetriesAll ==
    /\ []CombinationsInOrder
    /\ [][Starts2020 => (/\ uniq' = uniq
                         /\ Len(CallsOf(5)) = Len(uniq)
                         /\ \A i \in 1..Len(resps') : resps'[i] = <<>>)]_vars

\* C22 as amended: ... Public_AR_Census2020 is queried only after every
\* Public_AR_Current combination yielded nothing or a Public_AR_Current
\* query failed (a failed query ends the pass of its benchmark, the
\* remaining combinations are not queried), and with the same combinations.
CensusRetries ==
    /\ []CombinationsInOrder
    /\ [][Starts2020 => (/\ uniq' = uniq
                         /\ (Len(CallsOf(5)) = Len(uniq) \/ Throws(lastKind'))
                         /\ \A i \in 1..Len(resps') : resps'[i] = <<>>)]_vars

\* for '123 Union Star Rd, West Fork, AR' the three Public_AR_Current
\* queries found nothing and the third Public_AR_Census2020 query, the
\* hinted ZIP without the city, is in flight
CensusRetriesWitness ==
    /\ gpc = "r6" /\ ci = 3 /\ Hinted /\ Len(CallsOf(5)) = 3
    /\ uniq[3].city = <<>> /\ uniq[3].zip = "72774"

-----------------------------------------------------------------------------
(* Properties of smartGeocoder.suggest, checked under SpecSuggest           *)

\* C23: suggest calls only the Photon adapter.  Every request a suggest call
\* issues goes to Photon and none is issued when Photon is unavailable; the
\* call never rejects; it resolves with the array Photon delivered, and with
\* the empty sequence when Photon is unavailable, rejects or delivers a value
\* that is no array; the provider chain of geocode is not touched.
SuggestOnlyPhoton ==
    /\ ~sthrew
    /\ \A i \in 1..Len(scalls) : scalls[i].provider = "photon"
    /\ ~photon => scalls = <<>>
    /\ spc = "done" =>
          sresult = IF photon /\ sresp.kind = "hits" THEN sresp.value ELSE <<>>
    /\ calls = <<>> /\ inflight = {}

\* the second suggest call got a value that is no array from Photon and
\* resolved with the empty sequence
SuggestOnlyPhotonWitness ==
    /\ spc = "done" /\ Len(scalls) = 2
    /\ sresp.kind = "nonarray" /\ sresp.value # <<>> /\ sresult = <<>>

-----------------------------------------------------------------------------
(* Properties of the tips API, checked under Spec                           *)

\* the tips stored anywhere
StoredTips(all) == UNION {Range(all[k]) : k \in DOMAIN all}
NonNull(v) == v \notin {Null, Undefined}

\* a tip the viewer is entitled to see
ShownTo(t, viewer) ==
    \/ t.status = "published"
    \/ NonNull(viewer) /\ t.userId = viewer /\ t.status = "draft"

\* C6: visibility filter.  GET /api/tips answers with exactly the stored tips
\* of the key, in stored order, that are published or are drafts whose userId
\* is the (non-null) viewer.
VisibilityFilter ==
    resp.op = "get" =>
        /\ resp.code = 200
        /\ resp.body = SelectSeq(Group(tips, resp.key), LAMBDA t : ShownTo(t, resp.uid))

\* viewer B lists a key that holds a draft of A and a published tip: only the
\* published tip is returned
VisibilityFilterWitness ==
    /\ resp.op = "get" /\ resp.uid = "B" /\ Len(resp.body) = 1
    /\ \E i \in 1..Len(Group(tips, resp.key)) :
          /\ Group(tips, resp.key)[i].status = "draft"
          /\ Group(tips, resp.key)[i].userId = "A"

\* C7: draft confidentiality.  No successful response to a request that
\* presents another user id than the author's carries the author's draft.
DraftConfidential ==
    (resp.code \in {200, 201} /\ Truthy(resp.uid)) =>
        \A i \in 1..Len(resp.body) :
            (resp.body[i].status = "draft" /\ Truthy(resp.body[i].userId))
                => resp.body[i].userId = resp.uid

\* the step in which the publish handler answers a request that addresses an
\* existing tip, and the (1-based) position of that tip in its group
PublishOfExisting ==
    /\ resp.op = "none" /\ resp'.op = "publish" /\ resp'.key # NullKey
    /\ \/ IsSome(resp'.id) /\ \E j \in 1..Len(Group(tips, resp'.key)) :
                                  Group(tips, resp'.key)[j].id = Val(resp'.id)
       \/ /\ ~IsSome(resp'.id) /\ IsSome(resp'.index)
          /\ Val(resp'.index) >= 0 /\ Val(resp'.index) < Len(Group(tips, resp'.key))
AddressedPos ==
    IF IsSome(resp'.id)
    THEN CHOOSE j \in 1..Len(Group(tips, resp'.key)) :
             Group(tips, resp'.key)[j].id = Val(resp'.id)
    ELSE Val(resp'.index) + 1
PublishOutcome(forbidden) ==
    IF forbidden
    THEN resp'.code = 403 /\ tips' = tips
    ELSE /\ resp'.code = 200
         /\ Group(tips', resp'.key)[AddressedPos].status = "published"

\* C8 as stated: publish of an existing tip is refused (403, store unchanged)
\* exactly when the tip has a userId, the request supplies a non-null userId
\* and the two differ; otherwise the tip is published.
PublishGuardNonNull ==
    [][PublishOfExisting =>
          PublishOutcome(/\ NonNull(Group(tips, resp'.key)[AddressedPos].userId)
                         /\ NonNull(resp'.uid)
                         /\ Group(tips, resp'.key)[AddressedPos].userId # resp'.uid)]_vars

\* C8 as amended: ... exactly when the tip has a userId, the request supplies
\* a non-empty userId (neither null nor "") and the two differ.
PublishGuard ==
    [][PublishOfExisting =>
          PublishOutcome(/\ NonNull(Group(tips, resp'.key)[AddressedPos].userId)
                         /\ NonNull(resp'.uid) /\ resp'.uid # ""
                         /\ Group(tips, resp'.key)[AddressedPos].userId # resp'.uid)]_vars

\* B's publish of A's draft has been refused, the draft is still a draft
PublishGuardWitness ==
    /\ resp.op = "publish" /\ resp.code = 403 /\ resp.uid = "B"
    /\ \E t \in StoredTips(tips) : t.userId = "A" /\ t.status = "draft"

\* C9: one-way status, checked under SpecStore (tip and marker handlers).  In
\* every step, a tip (by id) that stays in the store keeps its status or goes
\* from draft to published, and a tip that enters the store carries an id
\* never used before; so a tip once published is never a draft again.
OneWayStatus ==
    [][\A new \in StoredTips(tips') :
          /\ \A old \in StoredTips(tips) :
                (old.id = new.id /\ old.status # new.status)
                    => (old.status = "draft" /\ new.status = "published")
          /\ (\A old \in StoredTips(tips) : old.id # new.id) => new.id > nextId]_vars

\* the publish handler has published a tip while the marker list holds a
\* marker that was edited
OneWayStatusWitness ==
    /\ resp.op = "publish" /\ resp.code = 200
    /\ Len(resp.body) = 1 /\ resp.body[1].status = "published"
    /\ Len(markers) > 0 /\ markers[1].userId = Undefined

\* the ids of a sequence of tips grow from each tip to the next: ids are
\* handed out in the order of creation
InOrderOfCreation(arr) ==
    \A i, j \in 1..Len(arr) : i < j => arr[i].id < arr[j].id

\* C25: insertion order.  For every key the stored tips are in the order in
\* which they were created, and so are the tips GET /api/tips answers with,
\* which are stored tips of the key in their stored order; a step never
\* changes the relative order of the tips that stay under a key.
InsertionOrder ==
    /\ [](/\ \A k \in DOMAIN tips : InOrderOfCreation(tips[k])
          /\ resp.op = "get" => InOrderOfCreation(resp.body))
    /\ [][\A k \in DOMAIN tips \cap DOMAIN tips' :
             \A i, j \in 1..Len(tips[k]), i2, j2 \in 1..Len(tips'[k]) :
                 (/\ i < j /\ tips[k][i].id = tips'[k][i2].id
                  /\ tips[k][j].id = tips'[k][j2].id) => i2 < j2]_vars

\* two tips were posted under one key, the first has been edited, and GET
\* lists the two in the order of their creation
InsertionOrderWitness ==
    /\ resp.op = "get" /\ Len(resp.body) = 2
    /\ resp.body[1].id = 1 /\ resp.body[1].text = "t2" /\ resp.body[2].id = 2

-----------------------------------------------------------------------------
(* Validation of tip requests, checked under Spec                           *)

\* a required field the request lacks
Missing(v) == v \in {Undefined, Null, ""}
\* the step rejects the request without reading or writing the tip store
Rejected == resp'.code = 400 /\ ~resp'.read /\ tips' = tips /\ markers' = markers

\* the requests of Next that resolve to no target key or lack a required
\* field (written as images so that each set is enumerated once)
InvalidPosts ==
    {r : r \in {p \in Targets \X {"", "t1"} \X Authors \X {Undefined, "draft"} :
                   tipKeyFrom(p[1]) = NullKey \/ Missing(p[2])}}
InvalidPuts ==
    {r : r \in {p \in PutRequests :
                   tipKeyFrom(p[1]) = NullKey \/ (Missing(p[3][1]) /\ ~IsSome(p[3][2]))}}
InvalidPublishes == {r : r \in {p \in PublishRequests : tipKeyFrom(p[1]) = NullKey}}
InvalidDeletes ==
    {r : r \in {p \in Targets \X Indexes : tipKeyFrom(p[1]) = NullKey \/ ~IsSome(p[2])}}
KeylessGets == {r : r \in {p \in Targets \X Uids : tipKeyFrom(p[1]) = NullKey}}

\* the response of this step is to a request for that target: every handler
\* records the key its request resolved to
Asked(tgt) == resp'.key = tipKeyFrom(tgt)

\* POST, PUT, PUT /publish and DELETE reject a request that resolves to no
\* target key or lacks its required fields
MutationsValidated ==
    /\ resp'.op = "post" =>
          \A r \in InvalidPosts :
              (Asked(r[1]) /\ PostTip(r[1], r[2], r[3], Undefined, r[4])) => Rejected
    /\ resp'.op = "put" =>
          \A r \in InvalidPuts :
              (Asked(r[1]) /\ PutTip(r[1], r[2][1], r[2][2], r[3][1], r[3][2], r[4]))
                  => Rejected
    /\ resp'.op = "publish" =>
          \A r \in InvalidPublishes :
              (Asked(r[1]) /\ PublishTip(r[1], r[2][1], r[2][2], r[3])) => Rejected
    /\ resp'.op = "delete" =>
          \A r \in InvalidDeletes : (Asked(r[1]) /\ DeleteTip(r[1], r[2])) => Rejected

-----------------------------------------------------------------------------
(* Properties of tip addressing, checked under SpecLookup                   *)

\* C11: id preferred over index.  An update or publish request that supplies
\* an id and changes or returns a tip (200) has acted on the tip with that id,
\* whatever index it also supplied.
IdOverIndex ==
    (resp.op \in {"put", "publish"} /\ IsSome(resp.id) /\ resp.code = 200)
        => resp.body[1].id = Val(resp.id)

\* the request being answered addresses no tip of its group: its id (if any)
\* is carried by no tip, and its index (if any) is no position of the group
AddressesNoTip(all, r) ==
    /\ IsSome(r.id) => \A j \in 1..Len(Group(all, r.key)) :
                           Group(all, r.key)[j].id # Val(r.id)
    /\ IsSome(r.index) => ~(Val(r.index) >= 0 /\ Val(r.index) < Len(Group(all, r.key)))

\* C12: lookup miss.  A tip update, publish or delete that passes validation
\* and addresses no existing tip is answered 404 and leaves the stored tips
\* and markers unchanged.
LookupMiss ==
    [][(/\ resp.op = "none" /\ resp'.op \in {"put", "publish", "delete"}
        /\ resp'.code # 400
        /\ AddressesNoTip(tips, resp'))
            => (resp'.code = 404 /\ tips' = tips /\ markers' = markers)]_vars

\* C16: round trip.  After POST /api/tips answers 201 with a tip, findTipIndex
\* with that tip's id on the stored group of the key gives a position that
\* holds the same tip (id, text, userId, photoUrl, status), and the list GET
\* computes for any viewer the tip is visible to contains that tip.
RoundTrip ==
    [][(resp.op = "none" /\ resp'.op = "post" /\ resp'.code = 201) =>
          /\ At(Group(tips', resp'.key),
                findTipIndex(Group(tips', resp'.key), Some(resp'.body[1].id), None))
          /\ Group(tips', resp'.key)
                [findTipIndex(Group(tips', resp'.key), Some(resp'.body[1].id), None) + 1]
                    = resp'.body[1]
          /\ \A v \in Uids :
                ShownTo(resp'.body[1], v) =>
                    resp'.body[1] \in Range(SelectSeq(Group(tips', resp'.key),
                                               LAMBDA t : Visible(t, OrElse(v, Null))))]_vars

\* a draft has been posted behind another tip of the same key
RoundTripWitness ==
    /\ resp.op = "post" /\ resp.code = 201
    /\ resp.body[1].status = "draft" /\ resp.body[1].userId = "A"
    /\ Len(Group(tips, resp.key)) = 2 /\ Group(tips, resp.key)[2] = resp.body[1]

-----------------------------------------------------------------------------
(* Properties of the startup migration, checked under SpecMigrate           *)

\* the step in which migrateTipKeysOnce runs
MigrationStep == resp.op = "boot" /\ resp'.op = "none"
HasPrefix(k) == Includes(k, ":")
\* the ids of the tips stored under key k
IdsUnder(all, k) == {all[k][i].id : i \in 1..Len(all[k])} \ {-1}

\* C14: migration idempotence.  Running the migration on the store a
\* migration left behind changes nothing, and a key that has a prefix is
\* still a key of the store after the migration.
MigrationIdempotent ==
    [][MigrationStep =>
          /\ Migrations(tips') = {tips'}
          /\ \A k \in DOMAIN tips : HasPrefix(k) => k \in DOMAIN tips']_vars

\* the migration has rewritten the seven-digit key: its tip is stored under
\* usgs:1111111
MigrationIdempotentWitness ==
    /\ resp.op = "none"
    /\ <<"u", "s", "g", "s", ":">> \o Ones(7) \in DOMAIN tips
    /\ 103 \in IdsUnder(tips, <<"u", "s", "g", "s", ":">> \o Ones(7))

\* the keys of the store after a migration step are the classified keys of
\* the store before it
ClassifiedBy(usgs(_)) ==
    MigrationStep =>
        DOMAIN tips' = {IF HasPrefix(k) THEN k
                        ELSE IF usgs(k) THEN <<"u", "s", "g", "s", ":">> \o k
                        ELSE <<"c", "u", "s", "t", "o", "m", ":">> \o k : k \in DOMAIN tips}
\* once the server listens every key has a prefix
AllPrefixed == resp.op # "boot" => \A k \in DOMAIN tips : HasPrefix(k)

\* C15 as stated: after the migration every key has a prefix; an un-prefixed
\* key of digits only became usgs:<key>, any other un-prefixed key
\* custom:<key>, and prefixed keys are unchanged.
KeysClassifiedByDigits ==
    []AllPrefixed /\ [][ClassifiedBy(AllDigits)]_vars

\* C15 as amended: ... an un-prefixed key of 7 to 15 digits became
\* usgs:<key>, any other un-prefixed key (shorter or longer runs of digits
\* included) custom:<key> ...
OnlyDigits7To15(k) == AllDigits(k) /\ Len(k) \in 7..15
KeysClassified ==
    []AllPrefixed /\ [][ClassifiedBy(OnlyDigits7To15)]_vars

\* a store with a 15-digit and a 16-digit key has been migrated
KeysClassifiedWitness ==
    /\ resp.op = "none"
    /\ DOMAIN tips = { <<"u", "s", "g", "s", ":">> \o Ones(15),
                       <<"c", "u", "s", "t", "o", "m", ":">> \o Ones(16) }

\* no tip id is stored twice, under one key or under two
StoredOnce ==
    /\ \A k \in DOMAIN tips :
          tips[k] # NotArray =>
              \A i, j \in 1..Len(tips[k]) : tips[k][i].id = tips[k][j].id => i = j
    /\ \A k1, k2 \in DOMAIN tips :
          k1 # k2 => IdsUnder(tips, k1) \cap IdsUnder(tips, k2) = {}
\* the prefixed form of a key
Prefixed(k) ==
    IF HasPrefix(k) THEN k
    ELSE IF OnlyDigits7To15(k) THEN <<"u", "s", "g", "s", ":">> \o k
    ELSE <<"c", "u", "s", "t", "o", "m", ":">> \o k

\* C17 as stated: no tip id is stored twice, and in every step (tip
\* operation, marker operation, startup migration) a tip that stays in the
\* store stays under the key it was under.
KeyNeverChanges ==
    /\ []StoredOnce
    /\ [][\A k \in DOMAIN tips, k2 \in DOMAIN tips' :
             IdsUnder(tips, k) \cap IdsUnder(tips', k2) # {} => k2 = k]_vars

\* C17 as amended: ... stays under the key it was under, except that the
\* startup migration puts the tips of an un-prefixed legacy key under the
\* prefixed form of that key.
KeyStable ==
    /\ []StoredOnce
    /\ [][\A k \in DOMAIN tips, k2 \in DOMAIN tips' :
             IdsUnder(tips, k) \cap IdsUnder(tips', k2) # {}
                 => k2 = IF MigrationStep THEN Prefixed(k) ELSE k]_vars

\* the tip found under the legacy key 0 is stored under custom:0 together
\* with a tip posted since, and a marker has been posted
KeyStableWitness ==
    /\ resp.op = "none" /\ markers # <<>>
    /\ <<"c", "u", "s", "t", "o", "m", ":", "0">> \in DOMAIN tips
    /\ {101, 1} \subseteq IdsUnder(tips, <<"c", "u", "s", "t", "o", "m", ":", "0">>)

-----------------------------------------------------------------------------
(* Properties of the tips panel next to another client, checked under       *)
(* SpecRace                                                                 *)

\* the listing no longer shows the group as it is stored
Stale ==
    listing # [j \in 1..Len(Group(tips, tipKeyFrom(MarkerTarget))) |->
                  Group(tips, tipKeyFrom(MarkerTarget))[j].id]
\* the request of this step acted on a tip other than the one clicked
Misdirected == clicked'.got # 0 /\ clicked'.got # clicked'.want

\* C18: index addressing is unsafe under concurrency.  A request addressed by
\* the index of an item of the listing acts on the tip of that item while
\* the listing shows the group as stored, and can act on another tip only
\* once a concurrent request has changed the group (the witness is such an
\* interleaving); a request addressed by id never acts on another tip.
IndexAddressingUnsafe ==
    [][\A i \in 0..(MaxTips - 1) :
          /\ (ClickDelete(i) \/ PutByIndex(i)) =>
                /\ Misdirected => Stale
                /\ ~Stale => clicked'.got = clicked'.want
          /\ SubmitEdit(i) => ~Misdirected]_vars

\* user A listed the group, another client deleted a tip, and A's delete by
\* index removed a tip other than the one A clicked on
IndexAddressingUnsafeWitness ==
    /\ clicked.op = "delete" /\ resp.op = "delete" /\ resp.code = 204
    /\ clicked.got # 0 /\ clicked.got # clicked.want
    /\ clicked.want \notin GroupIds(tips, tipKeyFrom(MarkerTarget))

-----------------------------------------------------------------------------
(* Properties of the data files, checked under SpecHeal                     *)

\* the step read tips.json / markers.json while it was damaged
ReadDamagedTips    == tipsFile = "damaged" /\ (resp'.read \/ (resp = Booting /\ resp' = NoResponse))
ReadDamagedMarkers ==
    /\ markersFile = "damaged"
    /\ resp'.op \in {"getMarkers", "postMarker", "putMarker", "deleteMarker"}
    /\ resp'.code # 400

-----------------------------------------------------------------------------
(* Properties of the markers routes, checked under SpecMarkers              *)

\* the answer of this step
Answers(op, code) == resp'.op = op /\ resp'.code = code
\* the marker at 1-based position j is found at position j2 after the step
StaysAt(j, j2) == j2 \in 1..Len(markers') /\ markers'[j2] = markers[j]

\* C19: marker index validity.  Markers are kept in insertion order: a POST
\* answered 201 appends one marker and moves none; a PUT answered 200
\* replaces the marker at its index and moves none; a DELETE answered 204
\* removes the marker at its index, leaves the markers before it where they
\* are and moves each marker after it down by exactly one; every other step
\* leaves the list as it is.
MarkerOrderKept ==
    [][/\ Answers("postMarker", 201) =>
              /\ Len(markers') = Len(markers) + 1
              /\ markers'[Len(markers')] = resp'.body[1]
              /\ \A j \in 1..Len(markers) : StaysAt(j, j)
       /\ Answers("putMarker", 200) =>
              /\ Len(markers') = Len(markers)
              /\ markers'[Val(resp'.index) + 1] = resp'.body[1]
              /\ \A j \in 1..Len(markers) : j # Val(resp'.index) + 1 => StaysAt(j, j)
       /\ Answers("deleteMarker", 204) =>
              /\ Len(markers') = Len(markers) - 1
              /\ \A j \in 1..Len(markers) :
                    /\ j < Val(resp'.index) + 1 => StaysAt(j, j)
                    /\ j > Val(resp'.index) + 1 => StaysAt(j, j - 1)
       /\ ~(\/ Answers("postMarker", 201)
            \/ Answers("putMarker", 200)
            \/ Answers("deleteMarker", 204)) => markers' = markers]_vars

\* the marker at index 0 has been deleted and the marker posted after it,
\* titled m2, is now at index 0
MarkerOrderKeptWitness ==
    /\ resp.op = "deleteMarker" /\ resp.code = 204 /\ resp.index = Some(0)
    /\ Len(markers) = 1 /\ markers[1].title = "m2"

-----------------------------------------------------------------------------
(* Properties of tipKeyFrom, checked under SpecKey                          *)

UsgsKey(siteId) == <<"u", "s", "g", "s", ":">> \o siteId
CustomKey(n) == <<"c", "u", "s", "t", "o", "m", ":">> \o NumToStr(n)

\* C10 as stated: a key with ':' verbatim; else usgs:<siteId> when siteId is
\* present; else custom:<markerIndex> when markerIndex is present (0
\* included); else null.
ResolveKeyPresent ==
    kpc = "ret" =>
        kout = IF IsSome(kin.key) /\ Includes(Val(kin.key), ":") THEN Val(kin.key)
               ELSE IF IsSome(kin.siteId) THEN UsgsKey(Val(kin.siteId))
               ELSE IF IsSome(kin.markerIndex) THEN CustomKey(Val(kin.markerIndex))
               ELSE NullKey

\* C10 as amended: ... else usgs:<siteId> when siteId is present and not the
\* empty string; ...
ResolveKey ==
    kpc = "ret" =>
        kout = IF IsSome(kin.key) /\ Includes(Val(kin.key), ":") THEN Val(kin.key)
               ELSE IF IsSome(kin.siteId) /\ Len(Val(kin.siteId)) > 0
                    THEN UsgsKey(Val(kin.siteId))
               ELSE IF IsSome(kin.markerIndex) THEN CustomKey(Val(kin.markerIndex))
               ELSE NullKey

\* {markerIndex: 0} has been resolved to 'custom:0'
ResolveKeyWitness ==
    /\ kpc = "ret"
    /\ kin = [key |-> None, siteId |-> None, markerIndex |-> Some(0)]
    /\ kout = <<"c", "u", "s", "t", "o", "m", ":", "0">>

-----------------------------------------------------------------------------
(* Properties of splitUSAddress, checked under SpecSplit                    *)

Returned == apc = "ret"
StateWordAt(s, i) == toUpperCase(s[i]) \in STATE_ABBR
IsLastState(s, i) ==
    /\ StateWordAt(s, i)
    /\ \A j \in (i + 1)..Len(s) : ~StateWordAt(s, j)
NoStateWord(s) == \A i \in 1..Len(s) : ~StateWordAt(s, i)
BeforeState(s, i) == SubSeq(s, 1, i - 1)
Segments(s, i) == SplitComma(BeforeState(s, i), <<>>)
\* the text before the state when it holds fewer than two segments
OnlySegment(s, i) == IF Segments(s, i) = <<>> THEN <<>> ELSE Segments(s, i)[1]

\* the state is the last state token, and the zip is non-empty only if a ZIP
\* ends the string after it; with no state token everything is street
StateAndZip ==
    /\ NoStateWord(ain) =>
          aout = [street |-> ain, city |-> <<>>, state |-> "", zip |-> ""]
    /\ \A i \in 1..Len(ain) : IsLastState(ain, i) =>
          /\ aout.state = toUpperCase(ain[i])
          /\ aout.zip # "" =>
                /\ Len(ain) > i
                /\ Last(ain) \in Zip5Words \cup Zip9Words
                /\ aout.zip = Zip5Of(Last(ain))

\* the example of the specification
ExampleAddress == <<"123", "Union", "Star", "Rd", ",", "West", "Fork", ",", "AR", "72774">>
ExampleParts ==
    [street |-> <<"123", "Union", "Star", "Rd">>, city |-> <<"West", "Fork">>,
     state |-> "AR", zip |-> "72774"]

\* C27 as stated: splitUSAddress takes the last two-letter state token as
\* state; zip is non-empty only if a 5-digit ZIP stands after that token at the
\* end of the string; whenever a comma stands before the state, the city is
\* the final comma-delimited segment and the street is the rest; with no state
\* token everything is returned as street.
SplitAsStated ==
    Returned =>
        /\ StateAndZip
        /\ \A i \in 1..Len(ain) :
              IsLastState(ain, i) /\ "," \in Range(BeforeState(ain, i)) =>
                  /\ aout.city = Last(Segments(ain, i))
                  /\ aout.street = JoinComma(Front(Segments(ain, i)))
        /\ ain = ExampleAddress => aout = ExampleParts

\* C27 (amended): splitUSAddress takes the last two-letter state token as
\* state; zip is non-empty only if a 5-digit ZIP stands after that token at the
\* end of the string; when the text before the state holds at least two
\* comma-delimited segments the city is the final one and the street is the
\* rest; when it holds fewer, a text of at least three words that begins with a
\* house number gives its last two words as city and the words before them as
\* street, and any other text is all street with an empty city; with no state
\* token everything is returned as street.
SplitByLastState ==
    Returned =>
        /\ StateAndZip
        /\ \A i \in 1..Len(ain) : IsLastState(ain, i) =>
              LET segs == Segments(ain, i)
                  text == OnlySegment(ain, i)
              IN  IF Len(segs) >= 2
                  THEN /\ aout.city = Last(segs)
                       /\ aout.street = JoinComma(Front(segs))
                  ELSE IF Len(text) >= 3 /\ text[1] \in HouseNumberWords
                  THEN /\ aout.city = SubSeq(text, Len(text) - 1, Len(text))
                       /\ aout.street = SubSeq(text, 1, Len(text) - 2)
                  ELSE /\ aout.city = <<>>
                       /\ aout.street = text
        /\ ain = ExampleAddress => aout = ExampleParts

\* the example has been split
SplitByLastStateWitness ==
    /\ Returned
    /\ ain = ExampleAddress
    /\ aout.city = <<"West", "Fork">>
    /\ aout.zip = "72774"

-----------------------------------------------------------------------------
(* Properties of the tips routes under interleaved requests, checked under  *)
(* Spec                                                                     *)

Stored(all, key) == Range(Group(all, key))
Acknowledged(op, code) == resp'.op = op /\ resp'.code = code

\* C28: no lost updates.  The requests of all users arrive in any order and
\* each handler runs from its read to its write in one step; a step keeps
\* every stored tip as it is, except the one tip an acknowledged PUT or publish
\* changed and the one tip an acknowledged DELETE removed; the tip a POST
\* answered 201 with is stored, and so is the tip a PUT or publish answered
\* 200 with.
NoLostUpdates ==
    [][/\ \A k \in DOMAIN tips : \A j \in 1..Len(tips[k]) :
            \/ tips[k][j] \in Stored(tips', k)
            \/ /\ Acknowledged("put", 200) \/ Acknowledged("publish", 200)
               /\ resp'.key = k
               /\ resp'.body[1].id = tips[k][j].id
            \/ /\ Acknowledged("delete", 204)
               /\ resp'.key = k
               /\ Val(resp'.index) = j - 1
               /\ Cardinality(GroupIds(tips, k) \ GroupIds(tips', k)) = 1
       /\ Acknowledged("post", 201) => resp'.body[1] \in Stored(tips', resp'.key)
       /\ Acknowledged("put", 200) \/ Acknowledged("publish", 200) =>
            resp'.body[1] \in Stored(tips', resp'.key)
       /\ \A k \in DOMAIN tips' : GroupIds(tips', k) \subseteq 1..nextId'
      ]_vars

\* the tip of an anonymous client, posted between the POST and the PUT of A's
\* tip under the same key, is stored next to A's updated tip
NoLostUpdatesWitness ==
    /\ resp.op = "put" /\ resp.code = 200
    /\ \E k \in DOMAIN tips :
          /\ Len(tips[k]) = 2
          /\ tips[k][1].userId = "A" /\ tips[k][1] = resp.body[1]
          /\ tips[k][1].text = "t2"
          /\ tips[k][2].userId = Null

-----------------------------------------------------------------------------
(* Properties of the tips panel on its own, checked under SpecPanel         *)

\* C29: the client's delete targets the displayed tip.  With no modification
\* of the group between the listing and the click, the DELETE the panel sends
\* for an item (index: its position in the viewer-filtered GET response)
\* removes the tip of that item, whatever the group holds, drafts of other
\* users included.
DeleteTargetsDisplayed ==
    [][\A i \in 0..(MaxTips - 1) :
          ClickDelete(i) => clicked'.got = clicked'.want]_vars

-----------------------------------------------------------------------------
(* Properties of markers and their tips, checked under SpecPins             *)

MarkerOps == {"getMarkers", "postMarker", "putMarker", "deleteMarker"}

\* C30: marker operations never modify the tip store.  A step of a markers
\* route leaves every tip group as it was and under the key it had; when
\* DELETE /api/markers removes the marker at index i, the marker that was at
\* index j + 1 is at index j afterwards (j >= i) while the group custom:j is
\* the one it was, so the tips listed for markerIndex j are those posted for
\* the marker previously at index j.
MarkersLeaveTips ==
    [][/\ resp'.op \in MarkerOps => tips' = tips
       /\ resp'.op = "deleteMarker" /\ resp'.code = 204 =>
             \A j \in Val(resp'.index)..(Len(markers) - 1) :
                 /\ Group(tips', CustomKey(j)) = Group(tips, CustomKey(j))
                 /\ j < Len(markers') => markers'[j + 1] = markers[j + 2]
       /\ resp'.op = "get" =>
             resp'.body = SelectSeq(Group(tips, resp'.key),
                                    LAMBDA t : ShownTo(t, resp'.uid))
      ]_vars

\* the marker m1 at index 0 was deleted: m2 is at index 0 now, the tip listed
\* for markerIndex 0 is the one posted for m1, and the tip posted for m2 is
\* still under custom:1
MarkersLeaveTipsWitness ==
    /\ resp.op = "get" /\ resp.key = CustomKey(0)
    /\ Len(markers) = 1 /\ markers[1].title = "m2"
    /\ Len(resp.body) = 1 /\ resp.body[1].text = "m1"
    /\ Len(Group(tips, CustomKey(1))) = 1
    /\ Group(tips, CustomKey(1))[1].text = "m2"

-----------------------------------------------------------------------------
(* Properties of the startup migration on colliding keys, checked under     *)
(* SpecMigrate                                                              *)

\* the tips of a store: the elements of the values that are arrays
TipsOf(all) == {t \in StoredTips(all) : t.id >= 0}

\* C31: the migration preserves tips.  For every tip store the server starts
\* over, a store with a legacy key and its prefixed counterpart included, every
\* tip stored before migrateTipKeysOnce ran is stored after it.
MigrationPreservesTips ==
    [][MigrationStep => TipsOf(tips) \subseteq TipsOf(tips')]_vars

-----------------------------------------------------------------------------
(* Properties of the updates of a tip, checked under SpecStore              *)

\* the step changed the tip at position j of group k into `t` and nothing else
OnlyChanged(k, j, t) ==
    /\ DOMAIN tips' = DOMAIN tips
    /\ \A k2 \in DOMAIN tips \ {k} : tips'[k2] = tips[k2]
    /\ Len(tips'[k]) = Len(tips[k])
    /\ tips'[k][j] = t
    /\ \A j2 \in (1..Len(tips[k])) \ {j} : tips'[k][j2] = tips[k][j2]
    /\ markers' = markers

\* C32: update frame.  A successful PUT /api/tips changes only the text and
\* the photoUrl of one tip of the addressed key, a successful publish only its
\* status; the id, userId and key of that tip, every other tip, every other
\* key, the marker list and the length of the group are unchanged.
UpdateFrame ==
    [][/\ Acknowledged("put", 200) =>
            \E j \in 1..Len(Group(tips, resp'.key)) :
                /\ OnlyChanged(resp'.key, j, resp'.body[1])
                /\ resp'.body[1] = [tips[resp'.key][j] EXCEPT
                                        !.text = resp'.body[1].text,
                                        !.photoUrl = resp'.body[1].photoUrl]
       /\ Acknowledged("publish", 200) =>
            \E j \in 1..Len(Group(tips, resp'.key)) :
                /\ OnlyChanged(resp'.key, j, resp'.body[1])
                /\ resp'.body[1] = [tips[resp'.key][j] EXCEPT !.status = "published"]
      ]_vars

\* the draft of A, first of two tips of a marker, has been published
UpdateFrameWitness ==
    /\ resp.op = "publish" /\ resp.code = 200
    /\ markers # <<>>
    /\ Len(Group(tips, resp.key)) = 2
    /\ Group(tips, resp.key)[1] = resp.body[1]
    /\ resp.body[1].userId = "A"
    /\ Group(tips, resp.key)[2].status = "draft"

-----------------------------------------------------------------------------
(* Properties of the caching proxies, checked under SpecCache               *)

KeysIn(cache) == {cache[i].k : i \in 1..Len(cache)}
\* the entries of ocCache whose key the step took out of the cache
Removed == {e \in Range(ocCache) : e.k \notin KeysIn(ocCache')}
\* the step is an ocSet
IsOcSet == pres'.op = "opencage" /\ pres'.src = "stored" /\ upstream' # upstream

\* C33: bounded OpenCage cache.  The cache never holds more than
\* OC_MAX_ENTRIES entries (one per key); an ocSet removes an entry only at
\* capacity, removes at most one, and the entry removed has the smallest
\* insertion timestamp of the cache.
BoundedCache ==
    /\ [](/\ Len(ocCache) <= OC_MAX_ENTRIES
          /\ Cardinality(KeysIn(ocCache)) = Len(ocCache))
    /\ [][IsOcSet =>
            /\ Cardinality(Removed) <= 1
            /\ Len(ocCache) < OC_MAX_ENTRIES => Removed = {}
            /\ \A e \in Removed : \A e2 \in Range(ocCache) : e.t <= e2.t
            /\ pres'.k \in KeysIn(ocCache')]_vars

\* an ocSet on the full cache has deleted the older of two entries of
\* different age and stored a new key
BoundedCacheWitness ==
    /\ pres.op = "opencage" /\ pres.src = "stored"
    /\ pres.gone # 0 /\ pres.gone \notin KeysIn(ocCache)
    /\ Len(ocCache) = OC_MAX_ENTRIES
    /\ ocCache[1].t < ocCache[Len(ocCache)].t
    /\ ocCache[Len(ocCache)].k = pres.k

\* the step is the cache lookup of a request
IsLookup(op) ==
    /\ pres'.op = op /\ pres'.src \in {"cache", "fetch"}
    /\ now' = now
    /\ BagCardinality(upstream') >= BagCardinality(upstream)
\* the cache holds an entry of key k no older than ttl
Fresh(cache, k, ttl) == \E e \in Range(cache) : e.k = k /\ now - e.t <= ttl
\* the cache holds no entry of key k, or one older than ttl
MissingOrExpired(cache, k, ttl) == \A e \in Range(cache) : e.k = k => now - e.t > ttl

\* C34: cache freshness.  A request is answered from ocCache or wikiCache only
\* if the cache holds an entry of exactly the key of the request that was
\* stored no longer ago than the cache's TTL; an expired OpenCage entry is
\* deleted by the lookup; a lookup that finds no entry or an expired one
\* starts an upstream request.
CacheFreshness ==
    [][/\ IsLookup("opencage") =>
            /\ pres'.src = "cache" => Fresh(ocCache, pres'.k, OC_TTL_MS)
            /\ MissingOrExpired(ocCache, pres'.k, OC_TTL_MS) =>
                  /\ pres'.k \notin KeysIn(ocCache')
                  /\ pres'.src = "fetch"
                  /\ upstream' = upstream (+) SetToBag({[op |-> "opencage", k |-> pres'.k]})
       /\ IsLookup("wiki") =>
            /\ pres'.src = "cache" => Fresh(wikiCache, pres'.k, WIKI_TTL_MS)
            /\ MissingOrExpired(wikiCache, pres'.k, WIKI_TTL_MS) =>
                  /\ pres'.src = "fetch"
                  /\ upstream' = upstream (+) SetToBag({[op |-> "wiki", k |-> pres'.k]})
      ]_vars

\* a request found the OpenCage entry of its key expired: the entry is
\* deleted and the upstream is asked
CacheFreshnessWitness ==
    /\ pres.op = "opencage" /\ pres.src = "fetch"
    /\ pres.gone = pres.k /\ pres.k \notin KeysIn(ocCache)
    /\ BagIn([op |-> "opencage", k |-> pres.k], upstream)

-----------------------------------------------------------------------------
(* Properties of loadUSGSGages, checked under SpecUsgs                      *)

\* C35: superseded USGS load.  Starting loadUSGSGages aborts the previous
\* load and clears the marker layer, and no step adds to the layer a marker of
\* a load other than the newest one, whether the stage value comes from an
\* aborted fetch, a completed fetch or the ivCache.
NoSupersededMarker ==
    [][\A m \in layer' \ layer : m.g = gen']_vars

-----------------------------------------------------------------------------
(* Properties of pLimitAll, checked under SpecPool                          *)

\* the handler invocations that have not settled
InFlight(ld) == {w \in 1..Len(ld.wk) : ld.wk[w].st = "pending"}
\* how often the handler was invoked for the item at index idx
Invocations(ld, idx) == Cardinality({c \in 1..Len(ld.calls) : ld.calls[c] = idx})
IndexesOf(ld) == 0..(Len(ld.items) - 1)
\* no invocation of the handler has thrown
AllSucceeded(ld) == \A w \in 1..Len(ld.wk) : ld.wk[w].st # "dead"
MinOf(a, b) == IF a < b THEN a ELSE b
\* at most min(limit, items.length) invocations in flight, and none twice
Limited(ld) ==
    /\ Cardinality(InFlight(ld)) <= MinOf(ld.limit, Len(ld.items))
    /\ \A idx \in IndexesOf(ld) : Invocations(ld, idx) <= 1
    /\ \A c \in 1..Len(ld.calls) : ld.calls[c] \in IndexesOf(ld)
\* the result holds the value of each handler at the index of its item
ValuesAtIndex(ld) ==
    /\ DOMAIN ld.ret = IndexesOf(ld)
    /\ \A idx \in IndexesOf(ld) : ld.ret[idx] = <<ld.items[idx + 1], idx>>

\* C36 as stated: once the workers of pLimitAll have all stopped the handler
\* has been invoked
\* exactly once per item, whatever the handlers did; at most min(limit,
\* items.length) invocations are in flight at any time; when all handlers
\* succeed the result holds each handler's value at its item's index.
PoolOncePerItem ==
    /\ Limited(loads[1])
    /\ loads[1].pc = "done" =>
          /\ \A idx \in IndexesOf(loads[1]) : Invocations(loads[1], idx) = 1
          /\ AllSucceeded(loads[1]) => ValuesAtIndex(loads[1])

\* What pLimitAll keeps when handlers may throw: the handler is never
\* invoked twice for an item and at most
\* min(limit, items.length) invocations are in flight at any time; when no
\* invocation throws, pLimitAll settles with the handler invoked exactly once
\* per item and with each handler's value at its item's index.
PoolOncePerItemIfNoThrow ==
    /\ Limited(loads[1])
    /\ loads[1].pc = "done" /\ AllSucceeded(loads[1]) =>
          /\ \A idx \in IndexesOf(loads[1]) : Invocations(loads[1], idx) = 1
          /\ ValuesAtIndex(loads[1])

\* pLimitAll has settled for more items than the limit, handlers that await
\* among them, none of which threw
PoolOncePerItemIfNoThrowWitness ==
    /\ loads[1].pc = "done" /\ AllSucceeded(loads[1])
    /\ loads[1].limit < Len(loads[1].items)
    /\ Len(loads[1].items) = MaxItems
    /\ loads[1].items[1] = "a" /\ loads[1].items[MaxItems] = "a"
    /\ DOMAIN loads[1].ret = IndexesOf(loads[1])

-----------------------------------------------------------------------------
(* The input of the structured Census stage, checked under SpecGeo          *)

\* the positions of the commas of a query
CommasOf(qry) == {i \in 1..Len(qry) : qry[i] = ","}
\* a query typed as 'street, city, ST' or 'street, city, ST zip'
TypedStreetCityState(qry) ==
    /\ Cardinality(CommasOf(qry)) = 2
    /\ \E i, j \in CommasOf(qry) :
          /\ 1 < i /\ i + 1 < j /\ j < Len(qry)
          /\ toUpperCase(qry[j + 1]) \in STATE_ABBR
          /\ Len(qry) > j + 1 => (Len(qry) = j + 2 /\ qry[j + 2] \in Zip5Words \cup Zip9Words)
\* the final comma-delimited segment of a query before its state
CitySegment(qry) ==
    LET j == CHOOSE c \in CommasOf(qry) : \A d \in CommasOf(qry) : d <= c
        i == CHOOSE c \in CommasOf(qry) : c < j
    IN  SubSeq(qry, i + 1, j - 1)
\* the parts the structured stage submits with its first request
Submitted == uniq[1]

\* C37: structured stage input.  For a US query typed as 'street, city, ST
\* zip' the street, city, state and zip the structured Census stage submits
\* equal splitUSAddress applied to the query as typed; in particular the
\* submitted city is the final comma-delimited segment before the state.
StructuredInputAsTyped ==
    (gpc \in {"r5", "r6"} /\ TypedStreetCityState(query)) =>
        /\ uniq # <<>>
        /\ Submitted.street = splitUSAddress(query).street
        /\ Submitted.city = CitySegment(query)
        /\ Submitted.state = splitUSAddress(query).state
        /\ Submitted.zip = splitUSAddress(query).zip
        /\ Submitted.city = splitUSAddress(query).city

=============================================================================
